---- MODULE Spec2Model ----
(***************************************************************************)
(* Model of the coprocessor's batch limit executor                         *)
(* (dag/batch_executor/limit.rs), of the columnar chunk (codec/chunk.rs)   *)
(* of the DAG request handler (dag/dag.rs) and of the evaluation context   *)
(* (dag/expr/ctx.rs).                                                      *)
(*                                                                         *)
(* SpecLimit  - BatchLimitExecutor::next_batch over a source executor.     *)
(* SpecChunk  - a destination Chunk and another (source) Chunk, mutated    *)
(*              through the Chunk / Column operations.                     *)
(* SpecVar    - SpecChunk for chunks of one variable-length column.        *)
(* SpecMixed  - a destination Chunk fed from a Chunk of any encoding.       *)
(* SpecDag    - DAGContext::handle_request (dag/dag.rs), request after      *)
(*              request, over the shared cache.                            *)
(* SpecEval   - an EvalContext (dag/expr/ctx.rs) and the calls on it.      *)
(***************************************************************************)
EXTENDS Integers, Sequences, FiniteSets, TLC

VARIABLES
    \* ---- BatchLimitExecutor (limit.rs) ----
    expect_rows,    \* BatchLimitExecutor.expect_rows: the remaining quota (u64);
                    \* a negative value -k stands for the wrapped value 2^64 - k
    limit,          \* the limit the executor was built with (history)
    srcLeft,        \* rows the source executor still has to give
    srcBounded,     \* TRUE: the source never returns more rows than asked for
    returned,       \* total rows returned by next_batch so far (history)
    calls,          \* number of next_batch calls made on the limit executor
    srcCalls,       \* number of next_batch calls made on the source
    lastCall,       \* what the last next_batch call saw and did (history)
    limitPanicked,  \* the subtraction overflowed in a build that checks it
    \* ---- Chunk / Column (chunk.rs) ----
    dst,            \* the Chunk being built: a sequence of Columns
    src,            \* another Chunk: source of append_row / append
    tps,            \* the type tags both chunks were constructed with
    dstRows,        \* per column of dst: what each row was produced from (history)
    srcRows,        \* per column of src: what each row was produced from (history)
    lastOp,         \* the last Chunk operation and its arguments (history)
    copied,         \* rows 0..copied-1 of src were copied, in order, into the
                    \* freshly built dst by append_row and nothing else; -1 otherwise
    srcPlain,       \* src was built by append operations only (history)
    dstPlain,       \* dst was built by append_null and value appends only (history)
    panicked,       \* a Chunk operation panicked (slice or index out of range)
    \* ---- DAGContext::handle_request and the shared cache (dag.rs) ----
    cache,          \* DISTSQL_CACHE: per region and cache key, an entry or NoEntry
    regionVersion,  \* the version the cache holds for each region
    ctx,            \* the DAGContext of the request being handled, with region_id
    pc,             \* where handle_request stands: "start", "lookup", "loop", "done"
    version,        \* handle_request's local `version`
    chunks,         \* handle_request's local `chunks`: a sequence of chunks of rows
    record_cnt,     \* handle_request's local `record_cnt`
    resp,           \* what handle_request returned: Ok(Response) or Err(e)
    hist,           \* what the request did so far (history)
    prev,           \* the request handled before this one: ctx, resp, hist,
                    \* disturbed (history)
    disturbed,      \* since the request arrived, the version of its region changed
                    \* or its entry was evicted or stored by someone else (history)
    \* ---- EvalContext (expr/ctx.rs) ----
    evalCtx,        \* the EvalContext: cfg (EvalConfig) and warnings (EvalWarnings)
    evalHist        \* the last call and its result, the number of warnings met
                    \* and those appended one by one (history)

limitVars == <<expect_rows, limit, srcLeft, srcBounded, returned, calls, srcCalls,
               lastCall, limitPanicked>>
chunkVars == <<dst, src, tps, dstRows, srcRows, lastOp, copied, srcPlain, dstPlain,
               panicked>>
dagVars == <<cache, regionVersion, ctx, pc, version, chunks, record_cnt, resp, hist,
             prev, disturbed>>
evalVars == <<evalCtx, evalHist>>
vars == <<limitVars, chunkVars, dagVars, evalVars>>

Min(a, b) == IF a < b THEN a ELSE b

\* ======================================================================
\* Bounds
\* ======================================================================
MaxLimit == 3     \* largest limit the executor is built with
MaxSrcTotal == 4  \* largest number of rows the source executor holds
MaxReq == 4       \* largest row count a caller passes to next_batch
MaxOver == 1      \* rows an unbounded source may return beyond the request
MaxCalls == 4     \* next_batch calls per run
MaxRows == 3      \* rows per fixed-width or boxed column of dst
MaxVarRows == 4   \* rows per variable-length column of dst
MaxLeftover == 1  \* rows of another encoding left in a column's unused buffers
MaxYield == 3     \* rows an executor chain yields
MaxVersion == 2   \* largest version of a region
MaxWarningCap == 2 \* largest cap on the retained warnings
MaxWarnings == 4  \* warnings met by one EvalContext

\* ======================================================================
\* BatchLimitExecutor
\* ======================================================================

\* `expect_rows > self.expect_rows` on unsigned values: a wrapped quota
\* (negative here) is larger than every request.
UGt(n, quota) == IF quota < 0 THEN FALSE ELSE n > quota

\* limit.rs 42-44: the request is clamped to the remaining quota.
ClampNone(n, quota) == n
ClampRows(n, quota) == IF UGt(n, quota) THEN quota ELSE n

\* The source executor's next_batch(asked): the row counts it may return and
\* the is_drained flag that goes with each. A bounded source returns at most
\* `asked` rows; it reports "drained" only when nothing is left. A request of
\* 0 rows is answered with no rows; the source may also reject it ("error").
SrcResults(asked, left, bounded) ==
    LET most == IF bounded THEN Min(asked, left) ELSE Min(asked + MaxOver, left)
    IN  { x \in [rows : 0..most, is_drained : {"more", "drained", "error"}] :
            /\ (x.is_drained = "drained" => x.rows = left)
            /\ (x.is_drained = "error" => (asked = 0 /\ x.rows = 0)) }

\* limit.rs 48: self.expect_rows -= rows_len. Unsigned subtraction: when
\* rows_len exceeds the quota the result wraps (unchecked build) or the
\* subtraction panics (checked build).
SubQuota(quota, rows_len) == quota - rows_len
SubOverflows(quota, rows_len) == quota >= 0 /\ rows_len > quota

\* The last Chunk operation and its arguments.
Op(name, a, b) == [op |-> name, a |-> a, b |-> b]

\* No request is being handled: the values of the request's state.
NoData == [chunks |-> <<>>, error |-> "", len |-> 0]
NoContext == [region_id |-> 0, cache_key |-> <<>>, has_aggr |-> FALSE, has_topn |-> FALSE,
              batch_row_limit |-> 0, enable_distsql_cache |-> FALSE,
              columns |-> <<>>, output_offsets |-> <<>>, rows_total |-> 0]
NoResponse == [kind |-> "none", data |-> NoData, other_error |-> "", error |-> ""]
NoHistory == [verAtQuery |-> -1, versionQueries |-> 0, lookups |-> 0, puts |-> 0,
              putVersion |-> -1, advanced |-> 0, staleChecks |-> 0, how |-> "none",
              found |-> NoData, verAtPut |-> -1,
              row |-> [n |-> 0, len |-> 0, present |-> FALSE, handle |-> 0]]
NoRequest == [ctx |-> NoContext, resp |-> NoResponse, hist |-> NoHistory,
              disturbed |-> FALSE]

NoCall == [n |-> 0, quota |-> 0, asked |-> 0, rows |-> 0, is_drained |-> "more",
           srcCallsBefore |-> 0]

\* BatchLimitExecutor::new(context, src, limit), limit.rs 28-36. No chunk is
\* in use.
LimitInit ==
    /\ limit \in 0..MaxLimit
    /\ expect_rows = limit
    /\ srcLeft \in 0..MaxSrcTotal
    /\ srcBounded \in BOOLEAN
    /\ returned = 0
    /\ calls = 0
    /\ srcCalls = 0
    /\ lastCall = NoCall
    /\ limitPanicked = FALSE
    /\ tps = <<>>
    /\ dst = <<>>
    /\ src = <<>>
    /\ dstRows = <<>>
    /\ srcRows = <<>>
    /\ lastOp = Op("new", 0, 0)
    /\ copied = 0
    /\ srcPlain = TRUE
    /\ dstPlain = TRUE
    /\ panicked = FALSE
    /\ cache = <<>>
    /\ regionVersion = <<>>
    /\ ctx = NoContext
    /\ pc = "idle"
    /\ version = 0
    /\ chunks = <<>>
    /\ record_cnt = 0
    /\ resp = NoResponse
    /\ hist = NoHistory
    /\ prev = NoRequest
    /\ disturbed = FALSE
    /\ evalCtx = <<>>
    /\ evalHist = <<>>

\* BatchLimitExecutor::next_batch(n), limit.rs 41-50. The source is called on
\* every call; its result is returned as it is, after the quota was reduced
\* by the rows in it. When the subtraction overflows, the call either returns
\* with a wrapped quota or panics, and then returns nothing.
next_batch(n) ==
    /\ ~limitPanicked
    /\ calls < MaxCalls
    /\ LET asked == ClampRows(n, expect_rows)
       IN \E result \in SrcResults(asked, srcLeft, srcBounded) :
            /\ srcCalls' = srcCalls + 1
            /\ srcLeft' = srcLeft - result.rows
            /\ calls' = calls + 1
            /\ \/ /\ expect_rows' = SubQuota(expect_rows, result.rows)
                  /\ returned' = returned + result.rows
                  /\ lastCall' = [n |-> n, quota |-> expect_rows, asked |-> asked,
                                  rows |-> result.rows,
                                  is_drained |-> result.is_drained,
                                  srcCallsBefore |-> srcCalls]
                  /\ limitPanicked' = FALSE
               \/ /\ SubOverflows(expect_rows, result.rows)
                  /\ limitPanicked' = TRUE
                  /\ UNCHANGED <<expect_rows, returned, lastCall>>
    /\ UNCHANGED <<limit, srcBounded>>
    /\ UNCHANGED <<chunkVars, dagVars, evalVars>>

\* ======================================================================
\* Column (chunk.rs 10-292)
\* ======================================================================

\* Rust indexes from 0: s[i], s[from..to] and Vec::truncate.
At0(s, i) == s[i + 1]
Slice0(s, from, to) == SubSeq(s, from + 1, to)
SliceOutOfRange(s, from, to) == from > to \/ to > Len(s)
Truncate(s, n) == IF n < Len(s) THEN SubSeq(s, 1, n) ELSE s
Last(s) == s[Len(s)]

BitIsSet(byte, pos) == (byte \div (2 ^ pos)) % 2 = 1
OrBit(byte, pos) == IF BitIsSet(byte, pos) THEN byte ELSE byte + 2 ^ pos

\* byteorder's LittleEndian writers: the low `n` bytes of the two's complement
\* of v, least significant first. Floating point values are written as their
\* IEEE-754 bit pattern, so a float is modelled by that bit pattern.
RECURSIVE LEBytes(_, _)
LEBytes(v, n) ==
    IF n = 0 THEN <<>>
    ELSE IF v >= 0 THEN <<v % 256>> \o LEBytes(v \div 256, n - 1)
    ELSE <<255 - ((-v - 1) % 256)>> \o LEBytes(-(((-v - 1) \div 256) + 1), n - 1)

\* byteorder's LittleEndian readers. A value that needs more than 31 bits is
\* outside the value sets of this model: it reads as TooBig.
TooBig == 2 ^ 30 + (2 ^ 30 - 1)
AllAre(bytes, from, b) == \A k \in from..Len(bytes) : bytes[k] = b
ReadUnsigned(bytes) ==
    IF AllAre(bytes, 5, 0) /\ bytes[4] < 128
    THEN bytes[1] + 256 * bytes[2] + 65536 * bytes[3] + 16777216 * bytes[4]
    ELSE TooBig
ReadSigned(bytes) ==
    IF bytes[Len(bytes)] < 128 THEN ReadUnsigned(bytes)
    ELSE IF AllAre(bytes, 5, 255) /\ bytes[4] >= 128
    THEN -(1 + (255 - bytes[1]) + 256 * (255 - bytes[2]) + 65536 * (255 - bytes[3])
             + 16777216 * (255 - bytes[4]))
    ELSE TooBig

\* Datum::Null, chunk.rs 124.
DatumNull == [tag |-> "Null", v |-> 0]

\* Column::new_fixed_column, chunk.rs 46-53.
new_fixed_column(fixed_len) ==
    [length |-> 0, null_cnt |-> 0, null_bitmap |-> <<>>, var_offsets |-> <<>>,
     data |-> <<>>, fixed_len |-> fixed_len, ifaces |-> <<>>]

\* Column::new_var_len_column, chunk.rs 55-64.
new_var_len_column ==
    [length |-> 0, null_cnt |-> 0, null_bitmap |-> <<>>, var_offsets |-> <<0>>,
     data |-> <<>>, fixed_len |-> 0, ifaces |-> <<>>]

\* Column::new_interface_column, chunk.rs 66-72.
new_interface_column ==
    [length |-> 0, null_cnt |-> 0, null_bitmap |-> <<>>, var_offsets |-> <<>>,
     data |-> <<>>, fixed_len |-> 0, ifaces |-> <<>>]

\* The type tags of mysql::types that Column::new tells apart, chunk.rs 23-43.
FixedTypes == {"TINY", "SHORT", "INT24", "LONG", "LONG_LONG", "YEAR", "FLOAT", "DOUBLE"}
VarTypes == {"VARCHAR", "VAR_STRING", "STRING", "BLOB", "TINY_BLOB", "MEDIUM_BLOB",
             "LONG_BLOB"}

\* Column::new, chunk.rs 22-44.
Column_new(tp) ==
    IF tp \in FixedTypes THEN new_fixed_column(8)
    ELSE IF tp \in VarTypes THEN new_var_len_column
    ELSE new_interface_column

\* Column::is_fixed, chunk.rs 74-76.
is_fixed(col) == col.fixed_len > 0

\* Column::is_varlen, chunk.rs 78-80.
is_varlen(col) == col.var_offsets # <<>>

\* Column::reset, chunk.rs 82-92.
reset(col) ==
    [col EXCEPT !.length = 0, !.null_cnt = 0, !.null_bitmap = <<>>,
                !.var_offsets = IF col.var_offsets # <<>> THEN Truncate(col.var_offsets, 1)
                                ELSE col.var_offsets,
                !.data = <<>>, !.ifaces = <<>>]

\* Column::is_null, chunk.rs 94-100.
is_null(col, row_idx) ==
    IF row_idx \div 8 < Len(col.null_bitmap)
    THEN ~BitIsSet(At0(col.null_bitmap, row_idx \div 8), row_idx % 8)
    ELSE FALSE

\* Column::append_null_bitmap, chunk.rs 102-113.
append_null_bitmap_panics(col, on) ==
    on /\ (col.length \div 8) > Len(col.null_bitmap)
\* (a variant that sets the bit of the row after the appended one)
append_null_bitmap_next_bit(col, on) ==
    LET idx == col.length \div 8
        bm == IF idx >= Len(col.null_bitmap) THEN Append(col.null_bitmap, 0)
              ELSE col.null_bitmap
    IN  IF on
        THEN [col EXCEPT !.null_bitmap =
                 [bm EXCEPT ![idx + 1] = OrBit(bm[idx + 1], (col.length + 1) % 8)]]
        ELSE [col EXCEPT !.null_bitmap = bm, !.null_cnt = @ + 1]
append_null_bitmap(col, on) ==
    LET idx == col.length \div 8
        bm == IF idx >= Len(col.null_bitmap) THEN Append(col.null_bitmap, 0)
              ELSE col.null_bitmap
    IN  IF on
        THEN [col EXCEPT !.null_bitmap =
                 [bm EXCEPT ![idx + 1] = OrBit(bm[idx + 1], col.length % 8)]]
        ELSE [col EXCEPT !.null_bitmap = bm, !.null_cnt = @ + 1]

\* Column::append_null, chunk.rs 115-127.
append_null_panics(col) ==
    ~is_fixed(col) /\ is_varlen(col) /\ col.length >= Len(col.var_offsets)
append_null(col) ==
    LET c1 == append_null_bitmap(col, FALSE)
        c2 == IF is_fixed(c1)
              THEN [c1 EXCEPT !.data = @ \o [k \in 1..c1.fixed_len |-> 0]]
              ELSE IF is_varlen(c1)
              THEN [c1 EXCEPT !.var_offsets = Append(@, At0(c1.var_offsets, c1.length))]
              ELSE [c1 EXCEPT !.ifaces = Append(@, DatumNull)]
    IN  [c2 EXCEPT !.length = @ + 1]

\* Column::finish_append_fixed, chunk.rs 129-132.
finish_append_fixed(col) ==
    [append_null_bitmap(col, TRUE) EXCEPT !.length = @ + 1]

\* Reading the slot of row idx, chunk.rs 140-142 (and 152-154, 164-166, 176-178).
slot_panics(col, idx) ==
    SliceOutOfRange(col.data, idx * col.fixed_len, idx * col.fixed_len + col.fixed_len)
slot(col, idx) == Slice0(col.data, idx * col.fixed_len, idx * col.fixed_len + col.fixed_len)

\* Column::append_i64, chunk.rs 134-137.
append_i64(col, v) == finish_append_fixed([col EXCEPT !.data = @ \o LEBytes(v, 8)])

\* Column::get_i64, chunk.rs 139-144: the value, or a panic.
get_i64(col, idx) ==
    IF slot_panics(col, idx) \/ col.fixed_len < 8 THEN [panic |-> TRUE, v |-> 0]
    ELSE [panic |-> FALSE, v |-> ReadSigned(SubSeq(slot(col, idx), 1, 8))]

\* Column::append_u64, chunk.rs 146-149.
append_u64(col, v) == finish_append_fixed([col EXCEPT !.data = @ \o LEBytes(v, 8)])

\* Column::get_u64, chunk.rs 151-156.
get_u64(col, idx) ==
    IF slot_panics(col, idx) \/ col.fixed_len < 8 THEN [panic |-> TRUE, v |-> 0]
    ELSE [panic |-> FALSE, v |-> ReadUnsigned(SubSeq(slot(col, idx), 1, 8))]

\* Column::append_f32, chunk.rs 158-161: write_f32 writes 4 bytes.
append_f32(col, v) == finish_append_fixed([col EXCEPT !.data = @ \o LEBytes(v, 4)])

\* Column::get_f32, chunk.rs 163-168: read_f32 reads the first 4 bytes of the slot.
get_f32(col, idx) ==
    IF slot_panics(col, idx) \/ col.fixed_len < 4 THEN [panic |-> TRUE, v |-> 0]
    ELSE [panic |-> FALSE, v |-> ReadUnsigned(SubSeq(slot(col, idx), 1, 4))]

\* Column::append_f64, chunk.rs 170-173.
append_f64(col, v) == finish_append_fixed([col EXCEPT !.data = @ \o LEBytes(v, 8)])

\* Column::get_f64, chunk.rs 175-180.
get_f64(col, idx) ==
    IF slot_panics(col, idx) \/ col.fixed_len < 8 THEN [panic |-> TRUE, v |-> 0]
    ELSE [panic |-> FALSE, v |-> ReadUnsigned(SubSeq(slot(col, idx), 1, 8))]

\* Column::finished_append_var, chunk.rs 182-187.
finished_append_var(col) ==
    LET c1 == append_null_bitmap(col, TRUE)
    IN  [c1 EXCEPT !.var_offsets = Append(@, Len(c1.data)), !.length = @ + 1]

\* Column::append_str, chunk.rs 189-192: a string is its UTF-8 bytes.
append_str(col, s) == finished_append_var([col EXCEPT !.data = @ \o s])

\* Column::append_bytes, chunk.rs 200-203.
append_bytes(col, byte) == finished_append_var([col EXCEPT !.data = @ \o byte])

\* Column::get_bytes, chunk.rs 205-209 (get_str, 194-198, reads the same span).
get_bytes_panics(col, idx) ==
    \/ idx + 1 >= Len(col.var_offsets)
    \/ SliceOutOfRange(col.data, At0(col.var_offsets, idx), At0(col.var_offsets, idx + 1))
get_bytes(col, idx) ==
    Slice0(col.data, At0(col.var_offsets, idx), At0(col.var_offsets, idx + 1))

\* Column::append_interface, chunk.rs 217-221.
append_interface(col, item) ==
    [append_null_bitmap([col EXCEPT !.ifaces = Append(@, item)], TRUE)
        EXCEPT !.length = @ + 1]

\* Column::get_interface, chunk.rs 223-225.
get_interface(col, idx) == At0(col.ifaces, idx)

\* Column::append_row, chunk.rs 228-244.
append_row_panics(self, row_col, row_idx) ==
    \/ append_null_bitmap_panics(self, ~is_null(row_col, row_idx))
    \/ IF is_fixed(row_col) THEN slot_panics(row_col, row_idx)
       ELSE IF is_varlen(row_col) THEN get_bytes_panics(row_col, row_idx)
       ELSE row_idx >= Len(row_col.ifaces)
\* (a variant that pushes the end offset the row has in row_col)
append_row_source_offset(self, row_col, row_idx) ==
    LET c1 == append_null_bitmap(self, ~is_null(row_col, row_idx))
        c2 == IF is_fixed(row_col)
              THEN [c1 EXCEPT !.data = @ \o slot(row_col, row_idx)]
              ELSE IF is_varlen(row_col)
              THEN [c1 EXCEPT !.data = @ \o get_bytes(row_col, row_idx),
                              !.var_offsets =
                                  Append(@, At0(row_col.var_offsets, row_idx + 1))]
              ELSE [c1 EXCEPT !.ifaces = Append(@, At0(row_col.ifaces, row_idx))]
    IN  [c2 EXCEPT !.length = @ + 1]
append_row(self, row_col, row_idx) ==
    LET c1 == append_null_bitmap(self, ~is_null(row_col, row_idx))
        c2 == IF is_fixed(row_col)
              THEN [c1 EXCEPT !.data = @ \o slot(row_col, row_idx)]
              ELSE IF is_varlen(row_col)
              THEN [c1 EXCEPT !.data = @ \o get_bytes(row_col, row_idx),
                              !.var_offsets =
                                  Append(@, Len(c1.data) + Len(get_bytes(row_col, row_idx)))]
              ELSE [c1 EXCEPT !.ifaces = Append(@, At0(row_col.ifaces, row_idx))]
    IN  [c2 EXCEPT !.length = @ + 1]

\* (a variant that copies the offsets of col as they are, not rebased)
push_offsets_not_rebased(offsets, col, id, end) ==
    offsets \o [k \in 1..(end - id) |-> At0(col.var_offsets, id + k)]

\* chunk.rs 257-261: one offset per copied row, each the previous tail plus
\* the byte length of the row.
RECURSIVE push_offsets(_, _, _, _)
push_offsets(offsets, col, id, end) ==
    IF id >= end THEN offsets
    ELSE push_offsets(
             Append(offsets, Last(offsets) + At0(col.var_offsets, id + 1)
                                           - At0(col.var_offsets, id)),
             col, id + 1, end)

\* chunk.rs 266-269: one null-bitmap bit per copied row.
RECURSIVE append_bits(_, _, _, _)
append_bits(self, col, id, end) ==
    IF id >= end THEN self
    ELSE append_bits(
             [append_null_bitmap(self, ~is_null(col, id)) EXCEPT !.length = @ + 1],
             col, id + 1, end)

RECURSIVE append_bits_panics(_, _, _, _)
append_bits_panics(self, col, id, end) ==
    IF id >= end THEN FALSE
    ELSE \/ append_null_bitmap_panics(self, ~is_null(col, id))
         \/ append_bits_panics(
                [append_null_bitmap(self, ~is_null(col, id)) EXCEPT !.length = @ + 1],
                col, id + 1, end)

\* Column::append, chunk.rs 247-270: rows [begin, end) of col.
append_panics(self, col, begin, end) ==
    \/ IF is_fixed(col)
       THEN SliceOutOfRange(col.data, col.fixed_len * begin, col.fixed_len * end)
       ELSE IF is_varlen(col)
       THEN \/ end >= Len(col.var_offsets)
            \/ SliceOutOfRange(col.data, At0(col.var_offsets, begin),
                               At0(col.var_offsets, end))
            \/ (begin < end /\ self.var_offsets = <<>>)
       ELSE SliceOutOfRange(col.ifaces, begin, end)
    \/ append_bits_panics(self, col, begin, end)
append(self, col, begin, end) ==
    LET c1 == IF is_fixed(col)
              THEN [self EXCEPT !.data =
                       @ \o Slice0(col.data, col.fixed_len * begin, col.fixed_len * end)]
              ELSE IF is_varlen(col)
              THEN [self EXCEPT
                       !.data = @ \o Slice0(col.data, At0(col.var_offsets, begin),
                                            At0(col.var_offsets, end)),
                       !.var_offsets = push_offsets(@, col, begin, end)]
              ELSE [self EXCEPT !.ifaces = @ \o Slice0(col.ifaces, begin, end)]
    IN  append_bits(c1, col, begin, end)

\* chunk.rs 284-288: the null rows among the dropped ones leave the count.
dropped_nulls(col, num_rows) ==
    Cardinality({id \in num_rows..(col.length - 1) : is_null(col, id)})

\* Column::truncate_to, chunk.rs 272-291.
truncate_to_panics(col, num_rows) ==
    \/ (~is_fixed(col) /\ is_varlen(col) /\ num_rows >= Len(col.var_offsets))
    \/ dropped_nulls(col, num_rows) > col.null_cnt
\* (a variant that leaves var_offsets as long as it was)
truncate_to_keeps_offsets(col, num_rows) ==
    LET c1 == IF is_fixed(col)
              THEN [col EXCEPT !.data = Truncate(@, col.fixed_len * num_rows)]
              ELSE IF is_varlen(col)
              THEN [col EXCEPT !.data = Truncate(@, At0(col.var_offsets, num_rows))]
              ELSE [col EXCEPT !.ifaces = Truncate(@, num_rows)]
    IN  [c1 EXCEPT !.null_cnt = @ - dropped_nulls(c1, num_rows),
                   !.length = num_rows,
                   !.null_bitmap = Truncate(@, (num_rows \div 8) + 1)]
\* chunk.rs 290: the bytes of the null bitmap that are kept.
bitmap_bytes_kept(num_rows) == (num_rows \div 8) + 1
truncate_to(col, num_rows) ==
    LET c1 == IF is_fixed(col)
              THEN [col EXCEPT !.data = Truncate(@, col.fixed_len * num_rows)]
              ELSE IF is_varlen(col)
              THEN [col EXCEPT !.data = Truncate(@, At0(col.var_offsets, num_rows)),
                               !.var_offsets = Truncate(@, num_rows + 1)]
              ELSE [col EXCEPT !.ifaces = Truncate(@, num_rows)]
    IN  [c1 EXCEPT !.null_cnt = @ - dropped_nulls(c1, num_rows),
                   !.length = num_rows,
                   !.null_bitmap = Truncate(@, bitmap_bytes_kept(num_rows))]

\* ======================================================================
\* Chunk (chunk.rs 298-398) and Row (chunk.rs 427-520)
\* ======================================================================

\* Chunk::new_chunk, chunk.rs 306-312.
new_chunk(tags) == [c \in DOMAIN tags |-> Column_new(tags[c])]

\* Chunk::reset, chunk.rs 321-325.
Chunk_reset(chk) == [c \in DOMAIN chk |-> reset(chk[c])]

\* Chunk::num_cols, chunk.rs 328-330.
num_cols(chk) == Len(chk)

\* Chunk::num_rows, chunk.rs 333-339.
num_rows(chk) == IF chk = <<>> THEN 0 ELSE chk[1].length

\* Chunk::append_row(0, row), chunk.rs 342-347, for a row of a chunk with as
\* many columns as this one: row = Row {c: row_chunk, idx: row_idx}.
Chunk_append_row_panics(chk, row_chunk, row_idx) ==
    \/ Len(row_chunk) > Len(chk)
    \/ \E c \in DOMAIN row_chunk : append_row_panics(chk[c], row_chunk[c], row_idx)
Chunk_append_row(chk, row_chunk, row_idx) ==
    [c \in DOMAIN chk |->
        IF c \in DOMAIN row_chunk THEN append_row(chk[c], row_chunk[c], row_idx)
        ELSE chk[c]]

\* Chunk::append, chunk.rs 350-354.
Chunk_append_panics(chk, other, begin, end) ==
    \/ Len(other) > Len(chk)
    \/ \E c \in DOMAIN other : append_panics(chk[c], other[c], begin, end)
\* (a variant that extends the first column only)
Chunk_append_first_only(chk, other, begin, end) ==
    [c \in DOMAIN chk |->
        IF c = 1 /\ c \in DOMAIN other THEN append(chk[c], other[c], begin, end)
        ELSE chk[c]]
Chunk_append(chk, other, begin, end) ==
    [c \in DOMAIN chk |->
        IF c \in DOMAIN other THEN append(chk[c], other[c], begin, end) ELSE chk[c]]

\* Chunk::truncate_to, chunk.rs 357-361.
Chunk_truncate_to_panics(chk, n) == \E c \in DOMAIN chk : truncate_to_panics(chk[c], n)
Chunk_truncate_to(chk, n) == [c \in DOMAIN chk |-> truncate_to(chk[c], n)]

\* Row::is_null, chunk.rs 517-519, for Row {c: chk, idx: idx}.
Row_is_null(chk, idx, col_idx) == is_null(chk[col_idx], idx)

\* Column::get_interface, chunk.rs 223-225: ifaces[idx] may be out of range.
get_interface_panics(col, idx) == idx >= Len(col.ifaces)

\* Row::get_datum(col_idx, fp), chunk.rs 488-515, for Row {c: chk, idx: idx} and
\* a field type with tag tp and the unsigned flag. The result tells the
\* accessor that was used (`via`), whether it panicked, and the datum's tag.
get_datum(chk, idx, col_idx, tp, unsigned) ==
    LET col == chk[col_idx]
    IN  IF Row_is_null(chk, idx, col_idx)
        THEN [via |-> "none", panic |-> FALSE, tag |-> "Null"]
        ELSE IF tp \in {"LONG_LONG", "TINY", "SHORT", "LONG", "YEAR"}
        THEN IF unsigned
             THEN [via |-> "get_u64", panic |-> get_u64(col, idx).panic, tag |-> "U64"]
             ELSE [via |-> "get_i64", panic |-> get_i64(col, idx).panic, tag |-> "I64"]
        ELSE IF tp \in {"FLOAT", "DOUBLE"}
        THEN [via |-> "get_f64", panic |-> get_f64(col, idx).panic, tag |-> "F64"]
        ELSE IF tp \in VarTypes
        THEN [via |-> "get_bytes", panic |-> get_bytes_panics(col, idx), tag |-> "Bytes"]
        ELSE [via |-> "get_interface", panic |-> get_interface_panics(col, idx),
              tag |-> IF get_interface_panics(col, idx) THEN "none"
                      ELSE get_interface(col, idx).tag]

\* ======================================================================
\* The chunks of SpecChunk and the operations on them
\* ======================================================================

\* The shapes the chunks are constructed with (Chunk::new_chunk's tps).
ChunkShapes == {<<"LONG_LONG">>, <<"INT24">>, <<"FLOAT">>, <<"DOUBLE">>, <<"VARCHAR">>,
                <<"NEW_DECIMAL">>}

\* The values callers append. Floats are IEEE-754 bit patterns: 1065353216 is
\* 1.0f32; the f64 values are subnormals with a small bit pattern.
I64Vals == {-2, 258}
U64Vals == {3}
F32Vals == {1065353216}
F64Vals == {5, 1029}
BytesVals == {<<97>>, <<98, 98>>}
DatumVals == {[tag |-> "Dec", v |-> 1], [tag |-> "Json", v |-> 2]}

IntTypes == {"TINY", "SHORT", "INT24", "LONG", "LONG_LONG", "YEAR"}

\* What a row was produced from: a null, or a value of some kind.
NullItem == [null |-> TRUE, tp |-> "null", v |-> <<>>]
ValItem(kind, v) == [null |-> FALSE, tp |-> kind, v |-> v]
\* A step of a script that is no row: truncate_to(n).
TruncStep(n) == [null |-> FALSE, tp |-> "truncate_to", v |-> <<n>>]

\* The append call that puts `item` into a column.
AppendItem(col, item) ==
    CASE item.tp = "i64" -> append_i64(col, item.v[1])
      [] item.tp = "u64" -> append_u64(col, item.v[1])
      [] item.tp = "f32" -> append_f32(col, item.v[1])
      [] item.tp = "f64" -> append_f64(col, item.v[1])
      [] item.tp = "bytes" -> append_bytes(col, item.v)
      [] item.tp = "datum" ->
            append_interface(col, [tag |-> IF item.v[1] = 2 THEN "Json" ELSE "Dec",
                                   v |-> item.v[1]])
      [] OTHER -> append_null(col)

\* The other chunk is a chunk of the same shape that earlier calls filled:
\* a script is the sequence of those calls, appends and truncate_to.
RECURSIVE RunScript(_, _)
RunScript(col, script) ==
    IF script = <<>> THEN col
    ELSE IF Head(script).tp = "truncate_to"
    THEN RunScript(truncate_to(col, Head(script).v[1]), Tail(script))
    ELSE RunScript(AppendItem(col, Head(script)), Tail(script))

RECURSIVE ScriptRows(_, _)
ScriptRows(rows, script) ==
    IF script = <<>> THEN rows
    ELSE IF Head(script).tp = "truncate_to"
    THEN ScriptRows(SubSeq(rows, 1, Head(script).v[1]), Tail(script))
    ELSE ScriptRows(Append(rows, Head(script)), Tail(script))

ScriptIsPlain(script) == \A k \in DOMAIN script : script[k].tp # "truncate_to"

\* Two values of the column's type, for the scripts.
OtherVal1(tp) ==
    IF tp \in IntTypes THEN ValItem("i64", <<258>>)
    ELSE IF tp = "FLOAT" THEN ValItem("f32", <<1065353216>>)
    ELSE IF tp = "DOUBLE" THEN ValItem("f64", <<1029>>)
    ELSE IF tp \in VarTypes THEN ValItem("bytes", <<97>>)
    ELSE ValItem("datum", <<1>>)
OtherVal2(tp) ==
    IF tp \in IntTypes THEN ValItem("u64", <<3>>)
    ELSE IF tp = "FLOAT" THEN ValItem("f32", <<7>>)
    ELSE IF tp = "DOUBLE" THEN ValItem("f64", <<5>>)
    ELSE IF tp \in VarTypes THEN ValItem("bytes", <<98, 98>>)
    ELSE ValItem("datum", <<2>>)

Scripts(tp) ==
    { <<>>,
      <<OtherVal1(tp), OtherVal2(tp)>>,
      <<OtherVal2(tp), NullItem, OtherVal1(tp)>>,
      <<OtherVal1(tp), TruncStep(0), NullItem>> }

\* Chunk::new_chunk(tps), chunk.rs 306-312, for dst, and the other chunk as the
\* calls of a script left it. No limit executor is in use.
ChunkInit ==
    /\ tps \in ChunkShapes
    /\ dst = new_chunk(tps)
    /\ dstRows = [c \in DOMAIN tps |-> <<>>]
    /\ \E script \in Scripts(tps[1]) :
          /\ src = [c \in DOMAIN tps |-> RunScript(Column_new(tps[c]), script)]
          /\ srcRows = [c \in DOMAIN tps |-> ScriptRows(<<>>, script)]
          /\ srcPlain = ScriptIsPlain(script)
    /\ lastOp = Op("new", 0, 0)
    /\ copied = 0
    /\ dstPlain = TRUE
    /\ panicked = FALSE
    /\ limit = 0
    /\ expect_rows = 0
    /\ srcLeft = 0
    /\ srcBounded = TRUE
    /\ returned = 0
    /\ calls = 0
    /\ srcCalls = 0
    /\ lastCall = NoCall
    /\ limitPanicked = FALSE
    /\ cache = <<>>
    /\ regionVersion = <<>>
    /\ ctx = NoContext
    /\ pc = "idle"
    /\ version = 0
    /\ chunks = <<>>
    /\ record_cnt = 0
    /\ resp = NoResponse
    /\ hist = NoHistory
    /\ prev = NoRequest
    /\ disturbed = FALSE
    /\ evalCtx = <<>>
    /\ evalHist = <<>>

Panic ==
    /\ panicked' = TRUE
    /\ copied' = -1
    /\ UNCHANGED <<dst, src, tps, dstRows, srcRows, lastOp, srcPlain, dstPlain>>
    /\ UNCHANGED <<limitVars, dagVars, evalVars>>

\* dst.columns[c] becomes col, its new row produced from item.
DstAppended(c, col, item, name) ==
    /\ dst' = [dst EXCEPT ![c] = col]
    /\ dstRows' = [dstRows EXCEPT ![c] = Append(@, item)]
    /\ lastOp' = Op(name, c, 0)
    /\ copied' = -1
    /\ UNCHANGED <<src, tps, srcRows, srcPlain, dstPlain, panicked>>
    /\ UNCHANGED <<limitVars, dagVars, evalVars>>

\* The row bound of column c, and the largest of the row bounds.
RowLimit(c) == IF tps[c] \in VarTypes THEN MaxVarRows ELSE MaxRows
AnyRows == IF MaxVarRows > MaxRows THEN MaxVarRows ELSE MaxRows

CanAppend(c) == ~panicked /\ dst[c].length < RowLimit(c)

\* null_cnt is the one counter that can grow without the rows growing; an
\* append is not followed where it would leave null_cnt above the row count.
NullCntBounded(chk) == \A c \in DOMAIN chk : chk[c].null_cnt <= chk[c].length

\* Rows copied from a column of another encoding can leave bytes, offsets or
\* boxed values in a buffer that the column's own encoding never fills and
\* that truncate_to does not cut; a copy is not followed where it would leave
\* more than MaxLeftover rows of them.
SizeBounded(chk) ==
    \A c \in DOMAIN chk :
        LET fresh == Column_new(tps[c])
        IN  /\ (~is_fixed(fresh) /\ ~is_varlen(fresh)) =>
                  Len(chk[c].data) <= 8 * MaxLeftover
            /\ ~is_varlen(fresh) => Len(chk[c].var_offsets) <= MaxLeftover
            /\ (is_fixed(fresh) \/ is_varlen(fresh)) => Len(chk[c].ifaces) <= MaxLeftover

\* Chunk::append_null(col_idx), chunk.rs 364-366.
AppendNull(c) ==
    /\ CanAppend(c)
    /\ IF append_null_panics(dst[c]) THEN Panic
       ELSE /\ NullCntBounded(<<append_null(dst[c])>>)
            /\ DstAppended(c, append_null(dst[c]), NullItem, "append_null")

\* Chunk::append_i64(col_idx, v), chunk.rs 369-371.
AppendI64(c, v) ==
    /\ CanAppend(c)
    /\ tps[c] \in IntTypes
    /\ DstAppended(c, append_i64(dst[c], v), ValItem("i64", <<v>>), "append_i64")

\* Chunk::append_u64(col_idx, v), chunk.rs 374-376.
AppendU64(c, v) ==
    /\ CanAppend(c)
    /\ tps[c] \in IntTypes
    /\ DstAppended(c, append_u64(dst[c], v), ValItem("u64", <<v>>), "append_u64")

\* Chunk::append_f32(col_idx, v), chunk.rs 379-381.
AppendF32(c, v) ==
    /\ CanAppend(c)
    /\ tps[c] = "FLOAT"
    /\ DstAppended(c, append_f32(dst[c], v), ValItem("f32", <<v>>), "append_f32")

\* Chunk::append_f64(col_idx, v), chunk.rs 383-385.
AppendF64(c, v) ==
    /\ CanAppend(c)
    /\ tps[c] = "DOUBLE"
    /\ DstAppended(c, append_f64(dst[c], v), ValItem("f64", <<v>>), "append_f64")

\* Chunk::append_str(col_idx, v), chunk.rs 387-389.
AppendStr(c, s) ==
    /\ CanAppend(c)
    /\ tps[c] \in VarTypes
    /\ DstAppended(c, append_str(dst[c], s), ValItem("bytes", s), "append_str")

\* Chunk::append_bytes(col_idx, v), chunk.rs 391-393.
AppendBytes(c, b) ==
    /\ CanAppend(c)
    /\ tps[c] \in VarTypes
    /\ DstAppended(c, append_bytes(dst[c], b), ValItem("bytes", b), "append_bytes")

\* Chunk::append_interface(col_idx, v), chunk.rs 395-397.
AppendInterface(c, d) ==
    /\ CanAppend(c)
    /\ tps[c] \notin FixedTypes \cup VarTypes
    /\ DstAppended(c, append_interface(dst[c], d), ValItem("datum", <<d.v>>),
                   "append_interface")

\* dst.append_row(0, Row::new(src, row_idx)), chunk.rs 342-347, for a row of src.
\* `copied` stays a count only while the rows are taken in order, also when
\* the call panics.
AppendRow(row_idx) ==
    /\ ~panicked
    /\ row_idx < num_rows(src)
    /\ \A c \in DOMAIN dst : dst[c].length < RowLimit(c)
    /\ IF Chunk_append_row_panics(dst, src, row_idx)
       THEN /\ panicked' = TRUE
            /\ copied' = IF copied = row_idx THEN copied ELSE -1
            /\ UNCHANGED <<dst, src, tps, dstRows, srcRows, lastOp, srcPlain, dstPlain>>
            /\ UNCHANGED <<limitVars, dagVars, evalVars>>
       ELSE /\ NullCntBounded(Chunk_append_row(dst, src, row_idx))
            /\ SizeBounded(Chunk_append_row(dst, src, row_idx))
            /\ dst' = Chunk_append_row(dst, src, row_idx)
            /\ dstRows' = [c \in DOMAIN dstRows |->
                              Append(dstRows[c], srcRows[c][row_idx + 1])]
            /\ lastOp' = Op("append_row", row_idx, 0)
            /\ copied' = IF copied = row_idx THEN copied + 1 ELSE -1
            /\ dstPlain' = FALSE
            /\ UNCHANGED <<src, tps, srcRows, srcPlain, panicked>>
            /\ UNCHANGED <<limitVars, dagVars, evalVars>>

\* dst.append(&src, begin, end), chunk.rs 350-354, for a range of rows of src.
AppendRange(begin, end) ==
    /\ ~panicked
    /\ begin <= end
    /\ end <= num_rows(src)
    /\ \A c \in DOMAIN dst : dst[c].length + (end - begin) <= RowLimit(c)
    /\ IF Chunk_append_panics(dst, src, begin, end) THEN Panic
       ELSE /\ NullCntBounded(Chunk_append(dst, src, begin, end))
            /\ SizeBounded(Chunk_append(dst, src, begin, end))
            /\ dst' = Chunk_append(dst, src, begin, end)
            /\ dstRows' = [c \in DOMAIN dstRows |->
                              dstRows[c] \o SubSeq(srcRows[c], begin + 1, end)]
            /\ lastOp' = Op("append", begin, end)
            /\ copied' = -1
            /\ dstPlain' = FALSE
            /\ UNCHANGED <<src, tps, srcRows, srcPlain, panicked>>
            /\ UNCHANGED <<limitVars, dagVars, evalVars>>

\* dst.truncate_to(n), chunk.rs 357-361, for n within the rows of every column.
TruncateTo(n) ==
    /\ ~panicked
    /\ \A c \in DOMAIN dst : n <= dst[c].length
    /\ IF Chunk_truncate_to_panics(dst, n) THEN Panic
       ELSE /\ dst' = Chunk_truncate_to(dst, n)
            /\ dstRows' = [c \in DOMAIN dstRows |-> SubSeq(dstRows[c], 1, n)]
            /\ lastOp' = Op("truncate_to", n, 0)
            /\ copied' = -1
            /\ dstPlain' = FALSE
            /\ UNCHANGED <<src, tps, srcRows, srcPlain, panicked>>
            /\ UNCHANGED <<limitVars, dagVars, evalVars>>

\* dst.reset(), chunk.rs 321-325.
Reset ==
    /\ ~panicked
    /\ dst' = Chunk_reset(dst)
    /\ dstRows' = [c \in DOMAIN dstRows |-> <<>>]
    /\ lastOp' = Op("reset", 0, 0)
    /\ copied' = -1
    /\ dstPlain' = FALSE
    /\ UNCHANGED <<src, tps, srcRows, srcPlain, panicked>>
    /\ UNCHANGED <<limitVars, dagVars, evalVars>>

ChunkNext ==
    \/ \E c \in DOMAIN dst : AppendNull(c)
    \/ \E c \in DOMAIN dst, v \in I64Vals : AppendI64(c, v)
    \/ \E c \in DOMAIN dst, v \in U64Vals : AppendU64(c, v)
    \/ \E c \in DOMAIN dst, v \in F32Vals : AppendF32(c, v)
    \/ \E c \in DOMAIN dst, v \in F64Vals : AppendF64(c, v)
    \/ \E c \in DOMAIN dst, s \in BytesVals : AppendStr(c, s)
    \/ \E c \in DOMAIN dst, b \in BytesVals : AppendBytes(c, b)
    \/ \E c \in DOMAIN dst, d \in DatumVals : AppendInterface(c, d)
    \/ \E i \in 0..(AnyRows - 1) : AppendRow(i)
    \/ \E b \in 0..AnyRows, e \in 0..AnyRows : AppendRange(b, e)
    \/ \E n \in 0..AnyRows : TruncateTo(n)
    \/ Reset

\* ======================================================================
\* DAGContext (dag.rs), the executor chain and the cache it shares
\* ======================================================================

\* The regions, key ranges and executor chains of the requests.
Regions == {1, 2}
Ranges == {"r1"}
Executors == {"agg", "topn", "scan"}

\* The configured rows per chunk (batch_row_limit): none, one, several.
BatchRowLimits == {0, 1, 2}

\* The columns of a table: one column, which is the pk handle, has a default
\* value, is declared not-null, or is none of these (tipb ColumnInfo). The
\* tables: a pk handle column that also has a default, a not-null column with
\* a default, a not-null column without one, a nullable column without one.
ColumnInfo(pk, def, notnull) ==
    [column_id |-> 1, pk_handle |-> pk, has_default_val |-> def, not_null |-> notnull]
ColumnSets == {<<ColumnInfo(TRUE, TRUE, TRUE)>>, <<ColumnInfo(FALSE, TRUE, TRUE)>>,
               <<ColumnInfo(FALSE, FALSE, TRUE)>>, <<ColumnInfo(FALSE, FALSE, FALSE)>>}

\* dag.rs 156: the largest serialized response that is cached.
CacheCap == 5 * 1024 * 1024

\* The length of a long row value: as many bytes as make a response of one
\* chunk with that one row exactly CacheCap bytes long.
BigRow == CacheCap - 10

\* The cache key, dag.rs 63: the Debug text of the ranges and of the executors.
CacheKey(ranges, executors) == <<ranges, executors>>
CacheKeys == {CacheKey(r, e) : r \in Ranges, e \in Executors}

\* DAGContext::new, dag.rs 45-77, with the region the request is for and the
\* number of rows its executor chain will yield; has_aggr and has_topn are what
\* build_exec reports for the chain.
DAGContext_new(executors, ranges, batch_row_limit, enable_distsql_cache, region_id, columns, rows_total) ==
    [region_id |-> region_id, cache_key |-> CacheKey(ranges, executors),
     has_aggr |-> executors = "agg", has_topn |-> executors = "topn",
     batch_row_limit |-> batch_row_limit, enable_distsql_cache |-> enable_distsql_cache,
     columns |-> columns, output_offsets |-> <<0>>, rows_total |-> rows_total]

\* The contexts of the requests that arrive under one configuration.
Contexts(batch_row_limit, enable_distsql_cache) ==
    { DAGContext_new(e, r, batch_row_limit, enable_distsql_cache, region, cols, n) :
        e \in Executors, r \in Ranges, region \in Regions, cols \in ColumnSets,
        n \in 0..MaxYield }

\* ---- the cache: get_region_version, get, put ----
NoEntry == [present |-> FALSE, data |-> NoData, version |-> 0]
get_region_version(versions, region_id) == versions[region_id]
cache_get(cch, region_id, key) == cch[region_id][key]
cache_put(cch, region_id, key, ver, data) ==
    [cch EXCEPT ![region_id][key] = [present |-> TRUE, data |-> data, version |-> ver]]

\* DAGContext::can_cache, dag.rs 151-153.
can_cache_any_plan(c) == c.enable_distsql_cache
can_cache(c) == c.enable_distsql_cache /\ (c.has_aggr \/ c.has_topn)

\* DAGContext::can_cache_with_size, dag.rs 155-161.
can_cache_with_size_never(c, data) == FALSE
can_cache_with_size_below(c, data) == IF data.len >= CacheCap THEN FALSE ELSE can_cache(c)
can_cache_with_size(c, data) == IF data.len > CacheCap THEN FALSE ELSE can_cache(c)

\* ---- protobuf's write_to_bytes: the length of what it writes ----
VarintLen(n) ==
    IF n < 128 THEN 1 ELSE IF n < 16384 THEN 2 ELSE IF n < 2097152 THEN 3
    ELSE IF n < 268435456 THEN 4 ELSE 5
\* A length-delimited field with a one-byte tag.
FieldLen(n) == 1 + VarintLen(n) + n
RECURSIVE BlobsLen(_)
BlobsLen(blobs) == IF blobs = <<>> THEN 0 ELSE Head(blobs).len + BlobsLen(Tail(blobs))
\* The chunks field of a response: per tipb Chunk, its rows_data field.
RECURSIVE ChunksLen(_)
ChunksLen(chs) ==
    IF chs = <<>> THEN 0
    ELSE FieldLen(FieldLen(BlobsLen(Head(chs)))) + ChunksLen(Tail(chs))

\* dag.rs 118-120: sel_resp.set_chunks(chunks); sel_resp.write_to_bytes().
SerializeChunks(chs) == [chunks |-> chs, error |-> "", len |-> ChunksLen(chs)]
\* dag.rs 135-137: sel_resp.set_error(to_pb_error(&e)); sel_resp.write_to_bytes().
SerializeError(e) ==
    [chunks |-> <<>>, error |-> e.variant, len |-> FieldLen(FieldLen(Len(e.msg)))]

\* ---- the executor chain: what exec.next() may return ----
OtherError == [variant |-> "Other", msg |-> <<98, 97, 100>>, text |-> "bad"]
ExecErrors == {OtherError, [variant |-> "Locked", msg |-> <<>>, text |-> "locked"]}

\* The n-th row of the chain: the length of its value, whether it holds a
\* value for the table's column, and its handle. The first row may be the
\* long one.
ExecRows(n) == { [n |-> n, len |-> l, present |-> p, handle |-> n] :
                    l \in (IF n = 1 THEN {1, BigRow} ELSE {1}), p \in BOOLEAN }

\* A byte blob of a chunk: where its bytes come from, of which row, how many.
Blob(from, row, len) == [from |-> from, n |-> row.n, len |-> len]

\* inflate_cols, dag.rs 171-186: the match on data.get(col_id) for one column.
InflateColDefaultFirst(row, col) ==
    IF row.present THEN [ok |-> TRUE, blob |-> Blob("stored", row, row.len)]
    ELSE IF col.has_default_val THEN [ok |-> TRUE, blob |-> Blob("default", row, 1)]
    ELSE IF col.pk_handle THEN [ok |-> TRUE, blob |-> Blob("pk", row, 2)]
    ELSE IF col.not_null THEN [ok |-> FALSE, blob |-> Blob("none", row, 0)]
    ELSE [ok |-> TRUE, blob |-> Blob("null", row, 1)]
InflateCol(row, col) ==
    IF row.present THEN [ok |-> TRUE, blob |-> Blob("stored", row, row.len)]
    ELSE IF col.pk_handle THEN [ok |-> TRUE, blob |-> Blob("pk", row, 2)]
    ELSE IF col.has_default_val THEN [ok |-> TRUE, blob |-> Blob("default", row, 1)]
    ELSE IF col.not_null THEN [ok |-> FALSE, blob |-> Blob("none", row, 0)]
    ELSE [ok |-> TRUE, blob |-> Blob("null", row, 1)]

\* inflate_cols, dag.rs 164-190: the values of the output columns, or an error.
RECURSIVE inflate_cols(_, _, _)
inflate_cols(row, cols, output_offsets) ==
    IF output_offsets = <<>> THEN [ok |-> TRUE, values |-> <<>>, err |-> OtherError]
    ELSE LET col == cols[Head(output_offsets) + 1]
             rest == inflate_cols(row, cols, Tail(output_offsets))
             one == InflateCol(row, col)
         IN  IF ~one.ok THEN [ok |-> FALSE, values |-> <<>>, err |-> OtherError]
             ELSE IF ~rest.ok THEN rest
             ELSE [ok |-> TRUE, values |-> <<one.blob>> \o rest.values, err |-> OtherError]

\* ---- handle_request, dag.rs 79-145, one action per step ----
\* dag.rs 127: the version handed to put is the local `version`.
PutVersionCurrent(local_version, current) == current
PutVersion(local_version, current) == local_version

\* dag.rs 90-95: the response of a hit carries the cached bytes.
HitResponseEmpty(data) == [kind |-> "ok", data |-> NoData, other_error |-> "", error |-> ""]
HitResponse(data) == [kind |-> "ok", data |-> data, other_error |-> "", error |-> ""]

\* dag.rs 130-131 and 138-140: Ok(resp); dag.rs 101, 113, 141: Err(e).
OkResponse(data, other_error) ==
    [kind |-> "ok", data |-> data, other_error |-> other_error, error |-> ""]
ErrResponse(e) == [kind |-> "err", data |-> NoData, other_error |-> "", error |-> e.variant]

\* dag.rs 102-108: a new chunk when there is none or the last one is full.
NeedsNewChunkWhenOver(chs, cnt, batch_row_limit) == chs = <<>> \/ cnt > batch_row_limit
NeedsNewChunk(chs, cnt, batch_row_limit) == chs = <<>> \/ cnt >= batch_row_limit
OpenChunk(chs, cnt, batch_row_limit) ==
    IF NeedsNewChunk(chs, cnt, batch_row_limit) THEN Append(chs, <<>>) ELSE chs
CountAfter(chs, cnt, batch_row_limit) ==
    (IF NeedsNewChunk(chs, cnt, batch_row_limit) THEN 0 ELSE cnt) + 1
\* dag.rs 109-114: chunk.mut_rows_data().extend_from_slice(..) on the last chunk.
ExtendLastInFront(chs, blobs) == [chs EXCEPT ![Len(chs)] = blobs \o @]
ExtendLast(chs, blobs) == [chs EXCEPT ![Len(chs)] = @ \o blobs]

\* dag.rs 80-84: the locals, and the region's version when the request can be cached.
Begin ==
    /\ pc = "start"
    /\ IF can_cache(ctx)
       THEN /\ version' = get_region_version(regionVersion, ctx.region_id)
            /\ hist' = [hist EXCEPT !.versionQueries = @ + 1,
                                    !.verAtQuery = get_region_version(regionVersion,
                                                                      ctx.region_id)]
            /\ pc' = "lookup"
       ELSE /\ version' = 0
            /\ hist' = hist
            /\ pc' = "loop"
    /\ chunks' = <<>>
    /\ record_cnt' = 0
    /\ UNCHANGED <<cache, regionVersion, ctx, resp, prev, disturbed>>
    /\ UNCHANGED <<limitVars, chunkVars, evalVars>>

\* dag.rs 85-96: the lookup, under a lock acquisition of its own.
Lookup ==
    /\ pc = "lookup"
    /\ LET e == cache_get(cache, ctx.region_id, ctx.cache_key)
       IN  IF e.present
           THEN /\ resp' = HitResponse(e.data)
                /\ hist' = [hist EXCEPT !.lookups = @ + 1, !.how = "hit", !.found = e.data]
                /\ pc' = "done"
           ELSE /\ resp' = resp
                /\ hist' = [hist EXCEPT !.lookups = @ + 1]
                /\ pc' = "loop"
    /\ UNCHANGED <<cache, regionVersion, ctx, version, chunks, record_cnt, prev, disturbed>>
    /\ UNCHANGED <<limitVars, chunkVars, evalVars>>

\* dag.rs 100-115: exec.next() gave a row.
NextRowChecksAfterAppend(row, outdated) ==
    /\ pc = "loop"
    /\ hist.advanced < ctx.rows_total
    /\ LET h1 == [hist EXCEPT !.advanced = @ + 1, !.staleChecks = @ + 1, !.row = row]
           chs1 == OpenChunk(chunks, record_cnt, ctx.batch_row_limit)
           cnt1 == CountAfter(chunks, record_cnt, ctx.batch_row_limit)
           value == inflate_cols(row, ctx.columns, ctx.output_offsets)
       IN  IF ~ctx.has_aggr /\ ~value.ok
           THEN /\ chunks' = chs1
                /\ record_cnt' = cnt1
                /\ resp' = ErrResponse(value.err)
                /\ hist' = [h1 EXCEPT !.how = "inflate"]
                /\ pc' = "done"
           ELSE /\ chunks' = ExtendLast(chs1, IF ctx.has_aggr
                                              THEN <<Blob("value", row, row.len)>>
                                              ELSE value.values)
                /\ record_cnt' = cnt1
                /\ IF outdated
                   THEN /\ resp' = ErrResponse([variant |-> "Outdated"])
                        /\ hist' = [h1 EXCEPT !.how = "outdated"]
                        /\ pc' = "done"
                   ELSE /\ hist' = h1
                        /\ UNCHANGED <<resp, pc>>
    /\ UNCHANGED <<cache, regionVersion, ctx, version, prev, disturbed>>
    /\ UNCHANGED <<limitVars, chunkVars, evalVars>>
NextRow(row, outdated) ==
    /\ pc = "loop"
    /\ hist.advanced < ctx.rows_total
    /\ LET h1 == [hist EXCEPT !.advanced = @ + 1, !.staleChecks = @ + 1, !.row = row]
           chs1 == OpenChunk(chunks, record_cnt, ctx.batch_row_limit)
           cnt1 == CountAfter(chunks, record_cnt, ctx.batch_row_limit)
           value == inflate_cols(row, ctx.columns, ctx.output_offsets)
       IN  IF outdated
           THEN /\ resp' = ErrResponse([variant |-> "Outdated"])
                /\ hist' = [h1 EXCEPT !.how = "outdated"]
                /\ pc' = "done"
                /\ UNCHANGED <<chunks, record_cnt>>
           ELSE IF ctx.has_aggr
           THEN /\ chunks' = ExtendLast(chs1, <<Blob("value", row, row.len)>>)
                /\ record_cnt' = cnt1
                /\ hist' = h1
                /\ UNCHANGED <<resp, pc>>
           ELSE IF value.ok
           THEN /\ chunks' = ExtendLast(chs1, value.values)
                /\ record_cnt' = cnt1
                /\ hist' = h1
                /\ UNCHANGED <<resp, pc>>
           ELSE /\ chunks' = chs1
                /\ record_cnt' = cnt1
                /\ resp' = ErrResponse(value.err)
                /\ hist' = [h1 EXCEPT !.how = "inflate"]
                /\ pc' = "done"
    /\ UNCHANGED <<cache, regionVersion, ctx, version, prev, disturbed>>
    /\ UNCHANGED <<limitVars, chunkVars, evalVars>>

\* dag.rs 116-132: exec.next() gave None.
NextNone ==
    /\ pc = "loop"
    /\ hist.advanced = ctx.rows_total
    /\ LET data == SerializeChunks(chunks)
           ver == PutVersion(version, get_region_version(regionVersion, ctx.region_id))
       IN  /\ IF can_cache_with_size(ctx, data)
              THEN /\ cache' = cache_put(cache, ctx.region_id, ctx.cache_key, ver, data)
                   /\ hist' = [hist EXCEPT !.advanced = @ + 1, !.puts = @ + 1,
                                           !.putVersion = ver, !.how = "exhausted",
                                           !.verAtPut = get_region_version(
                                                            regionVersion, ctx.region_id)]
              ELSE /\ cache' = cache
                   /\ hist' = [hist EXCEPT !.advanced = @ + 1, !.how = "exhausted"]
           /\ resp' = OkResponse(data, "")
    /\ pc' = "done"
    /\ UNCHANGED <<regionVersion, ctx, version, chunks, record_cnt, prev, disturbed>>
    /\ UNCHANGED <<limitVars, chunkVars, evalVars>>

\* dag.rs 133: if let Error::Other(_) = e.
IsOtherNever(e) == FALSE
IsOther(e) == e.variant = "Other"

\* dag.rs 133-142: exec.next() gave an error.
NextErr(e) ==
    /\ pc = "loop"
    /\ IF IsOther(e)
       THEN /\ resp' = OkResponse(SerializeError(e), e.text)
            /\ hist' = [hist EXCEPT !.advanced = @ + 1, !.how = "business"]
       ELSE /\ resp' = ErrResponse(e)
            /\ hist' = [hist EXCEPT !.advanced = @ + 1, !.how = "fatal"]
    /\ pc' = "done"
    /\ UNCHANGED <<cache, regionVersion, ctx, version, chunks, record_cnt, prev, disturbed>>
    /\ UNCHANGED <<limitVars, chunkVars, evalVars>>

\* The next request arrives: a DAGContext is built for it (dag.rs 45-77).
NewRequest(c) ==
    /\ pc = "done"
    /\ prev' = [ctx |-> ctx, resp |-> resp, hist |-> hist, disturbed |-> disturbed]
    /\ ctx' = c
    /\ pc' = "start"
    /\ version' = 0
    /\ chunks' = <<>>
    /\ record_cnt' = 0
    /\ resp' = NoResponse
    /\ hist' = NoHistory
    /\ disturbed' = FALSE
    /\ UNCHANGED <<cache, regionVersion>>
    /\ UNCHANGED <<limitVars, chunkVars, evalVars>>

\* ---- what others do to the cache while requests are handled ----
\* The region's version changes (a write to the region).
ChangeVersion(region_id) ==
    /\ regionVersion[region_id] < MaxVersion
    /\ regionVersion' = [regionVersion EXCEPT ![region_id] = @ + 1]
    /\ disturbed' = TRUE
    /\ UNCHANGED <<cache, ctx, pc, version, chunks, record_cnt, resp, hist, prev>>
    /\ UNCHANGED <<limitVars, chunkVars, evalVars>>

\* An entry is evicted.
Evict(region_id, key) ==
    /\ cache[region_id][key].present
    /\ cache' = [cache EXCEPT ![region_id][key] = NoEntry]
    /\ disturbed' = TRUE
    /\ UNCHANGED <<regionVersion, ctx, pc, version, chunks, record_cnt, resp, hist, prev>>
    /\ UNCHANGED <<limitVars, chunkVars, evalVars>>

\* Another handler stores its response under the key: no chunk, or one chunk
\* of one row.
OtherData == {SerializeChunks(<<>>),
              SerializeChunks(<<<<[from |-> "value", n |-> 1, len |-> 1]>>>>)}
OtherStore(region_id, key, data) ==
    /\ cache[region_id][key] # [present |-> TRUE, data |-> data,
                                version |-> regionVersion[region_id]]
    /\ cache' = cache_put(cache, region_id, key, regionVersion[region_id], data)
    /\ disturbed' = TRUE
    /\ UNCHANGED <<regionVersion, ctx, pc, version, chunks, record_cnt, resp, hist, prev>>
    /\ UNCHANGED <<limitVars, chunkVars, evalVars>>

\* ======================================================================
\* EvalConfig, EvalWarnings, EvalContext (expr/ctx.rs)
\* ======================================================================

\* ctx.rs 26, 30, 33, 37: the bits of DAGRequest.flags.
FLAG_IGNORE_TRUNCATE == 1
FLAG_TRUNCATE_AS_WARNING == 2
FLAG_IN_SELECT_STMT == 32
FLAG_OVERFLOW_AS_WARNING == 64
\* ctx.rs 39.
DEFAULT_MAX_WARNING_CNT == 64

\* The flags of a request: any of the four bits, and one that is not used.
EvalFlags == { a + b + c + d + e : a \in {0, FLAG_IGNORE_TRUNCATE},
                 b \in {0, FLAG_TRUNCATE_AS_WARNING}, c \in {0, FLAG_IN_SELECT_STMT},
                 d \in {0, FLAG_OVERFLOW_AS_WARNING}, e \in {0, 4} }

\* (flags & flag) > 0 for a flag of one bit.
FlagSet(flags, flag) == (flags \div flag) % 2 = 1

\* EvalConfig::new, ctx.rs 65-84; the time zone is kept as its offset.
EvalConfig_new(tz_offset, flags) ==
    IF tz_offset <= -(3600 * 24) \/ tz_offset >= 3600 * 24
    THEN [ok |-> FALSE, cfg |-> <<>>]
    ELSE [ok |-> TRUE,
          cfg |-> [tz |-> tz_offset,
                   ignore_truncate |-> FlagSet(flags, FLAG_IGNORE_TRUNCATE),
                   truncate_as_warning |-> FlagSet(flags, FLAG_TRUNCATE_AS_WARNING),
                   overflow_as_warning |-> FlagSet(flags, FLAG_OVERFLOW_AS_WARNING),
                   in_select_stmt |-> FlagSet(flags, FLAG_IN_SELECT_STMT),
                   max_warning_cnt |-> DEFAULT_MAX_WARNING_CNT]]

\* EvalConfig::set_max_warning_cnt, ctx.rs 86-88.
set_max_warning_cnt(cfg, max_warning_cnt) ==
    [cfg EXCEPT !.max_warning_cnt = max_warning_cnt]

\* EvalWarnings::new, ctx.rs 107-113.
EvalWarnings_new(max_warning_cnt) ==
    [max_warning_cnt |-> max_warning_cnt, warning_cnt |-> 0, warnings |-> <<>>]

\* EvalContext::new, ctx.rs 154-160.
EvalContext_new(cfg) == [cfg |-> cfg, warnings |-> EvalWarnings_new(cfg.max_warning_cnt)]

\* The errors of an evaluation: ctx.rs 166 builds the first.
TruncatedError == [variant |-> "Truncated", code |-> 1265, msg |-> "[1265] Data Truncated"]
OverflowError == [variant |-> "Overflow", code |-> 1690, msg |-> "BIGINT value is out of range"]

\* err.into(): the select::Error of an Error, its code and its message.
IntoSelectError(err) == [code |-> err.code, msg |-> err.msg]

\* EvalWarnings::append_warning, ctx.rs 115-120.
append_warning_keep_last(w, err) ==
    [w EXCEPT !.warning_cnt = @ + 1,
              !.warnings = IF Len(@) < w.max_warning_cnt
                           THEN Append(@, IntoSelectError(err))
                           ELSE IF @ = <<>> THEN @
                           ELSE Append(Tail(@), IntoSelectError(err))]
append_warning(w, err) ==
    [w EXCEPT !.warning_cnt = @ + 1,
              !.warnings = IF Len(@) < w.max_warning_cnt
                           THEN Append(@, IntoSelectError(err)) ELSE @]

\* EvalWarnings::merge, ctx.rs 122-131.
merge(w, other) ==
    IF Len(w.warnings) >= w.max_warning_cnt
    THEN [w EXCEPT !.warning_cnt = @ + other.warning_cnt]
    ELSE [w EXCEPT !.warning_cnt = @ + other.warning_cnt,
                   !.warnings = @ \o Truncate(other.warnings, w.max_warning_cnt - Len(@))]

\* The result of a handler: Ok(()) or Err(err), and the context it leaves.
EvalOk(c) == [ok |-> TRUE, err |-> "", ctx |-> c]
EvalErr(c, err) == [ok |-> FALSE, err |-> err.variant, ctx |-> c]

\* EvalContext::handle_truncate_err, ctx.rs 169-178.
handle_truncate_err_warning_first(c, err) ==
    IF c.cfg.truncate_as_warning
    THEN EvalOk([c EXCEPT !.warnings = append_warning(@, err)])
    ELSE IF c.cfg.ignore_truncate THEN EvalOk(c)
    ELSE EvalErr(c, err)
handle_truncate_err(c, err) ==
    IF c.cfg.ignore_truncate THEN EvalOk(c)
    ELSE IF c.cfg.truncate_as_warning
    THEN EvalOk([c EXCEPT !.warnings = append_warning(@, err)])
    ELSE EvalErr(c, err)

\* EvalContext::handle_truncate, ctx.rs 162-167.
handle_truncate(c, is_truncated) ==
    IF ~is_truncated THEN EvalOk(c) ELSE handle_truncate_err(c, TruncatedError)

\* EvalContext::handle_over_flow, ctx.rs 182-189.
handle_over_flow(c, err) ==
    IF c.cfg.overflow_as_warning
    THEN EvalOk([c EXCEPT !.warnings = append_warning(@, err)])
    ELSE EvalErr(c, err)

\* The accumulators that are merged in: of any cap, with any count at least
\* the number of retained warnings.
OtherWarnings ==
    { w \in [max_warning_cnt : 0..MaxWarningCap, warning_cnt : 0..MaxWarningCap + 1,
             warnings : {<<>>, <<IntoSelectError(OverflowError)>>,
                         <<IntoSelectError(OverflowError),
                           IntoSelectError(TruncatedError)>>}] :
        Len(w.warnings) <= w.max_warning_cnt /\ Len(w.warnings) <= w.warning_cnt }

\* ---- the calls on an EvalContext ----
\* What a call leaves in the history: its name, its result, and the count of
\* all warnings met so far with those appended one by one.
Called(op, res, met, appended, merged) ==
    [last |-> [op |-> op, ok |-> res.ok, err |-> res.err],
     total |-> evalHist.total + met,
     seen |-> evalHist.seen \o appended,
     merged |-> evalHist.merged \/ merged]

HandleTruncate(is_truncated) ==
    /\ evalCtx.warnings.warning_cnt < MaxWarnings
    /\ LET res == handle_truncate(evalCtx, is_truncated)
           warned == is_truncated /\ ~evalCtx.cfg.ignore_truncate
                        /\ evalCtx.cfg.truncate_as_warning
       IN  /\ evalCtx' = res.ctx
           /\ evalHist' = Called(IF is_truncated THEN "handle_truncate(true)"
                                 ELSE "handle_truncate(false)", res,
                                 IF warned THEN 1 ELSE 0,
                                 IF warned THEN <<IntoSelectError(TruncatedError)>>
                                 ELSE <<>>, FALSE)
    /\ UNCHANGED <<limitVars, chunkVars, dagVars>>

HandleOverFlow ==
    /\ evalCtx.warnings.warning_cnt < MaxWarnings
    /\ LET res == handle_over_flow(evalCtx, OverflowError)
           warned == evalCtx.cfg.overflow_as_warning
       IN  /\ evalCtx' = res.ctx
           /\ evalHist' = Called("handle_over_flow", res, IF warned THEN 1 ELSE 0,
                                 IF warned THEN <<IntoSelectError(OverflowError)>>
                                 ELSE <<>>, FALSE)
    /\ UNCHANGED <<limitVars, chunkVars, dagVars>>

AppendWarning(err) ==
    /\ evalCtx.warnings.warning_cnt < MaxWarnings
    /\ evalCtx' = [evalCtx EXCEPT !.warnings = append_warning(@, err)]
    /\ evalHist' = Called("append_warning", EvalOk(evalCtx), 1, <<IntoSelectError(err)>>,
                          FALSE)
    /\ UNCHANGED <<limitVars, chunkVars, dagVars>>

Merge(other) ==
    /\ evalCtx.warnings.warning_cnt < MaxWarnings
    /\ evalCtx' = [evalCtx EXCEPT !.warnings = merge(@, other)]
    /\ evalHist' = Called("merge", EvalOk(evalCtx), other.warning_cnt, <<>>, TRUE)
    /\ UNCHANGED <<limitVars, chunkVars, dagVars>>

\* ======================================================================
\* Specifications
\* ======================================================================
LimitNext == \E n \in 0..MaxReq : next_batch(n)

SpecLimit == LimitInit /\ [][LimitNext]_vars

SpecChunk == ChunkInit /\ [][ChunkNext]_vars

\* The chunks with one variable-length column, and the operations of such
\* a column.
VarInit ==
    /\ tps = <<"VARCHAR">>
    /\ dst = new_chunk(tps)
    /\ dstRows = [c \in DOMAIN tps |-> <<>>]
    /\ \E script \in Scripts(tps[1]) :
          /\ src = [c \in DOMAIN tps |-> RunScript(Column_new(tps[c]), script)]
          /\ srcRows = [c \in DOMAIN tps |-> ScriptRows(<<>>, script)]
          /\ srcPlain = ScriptIsPlain(script)
    /\ lastOp = Op("new", 0, 0)
    /\ copied = 0
    /\ dstPlain = TRUE
    /\ panicked = FALSE
    /\ limit = 0
    /\ expect_rows = 0
    /\ srcLeft = 0
    /\ srcBounded = TRUE
    /\ returned = 0
    /\ calls = 0
    /\ srcCalls = 0
    /\ lastCall = NoCall
    /\ limitPanicked = FALSE
    /\ cache = <<>>
    /\ regionVersion = <<>>
    /\ ctx = NoContext
    /\ pc = "idle"
    /\ version = 0
    /\ chunks = <<>>
    /\ record_cnt = 0
    /\ resp = NoResponse
    /\ hist = NoHistory
    /\ prev = NoRequest
    /\ disturbed = FALSE
    /\ evalCtx = <<>>
    /\ evalHist = <<>>

VarNext ==
    \/ \E c \in DOMAIN dst : AppendNull(c)
    \/ \E c \in DOMAIN dst, s \in BytesVals : AppendStr(c, s)
    \/ \E c \in DOMAIN dst, b \in BytesVals : AppendBytes(c, b)
    \/ \E i \in 0..(AnyRows - 1) : AppendRow(i)
    \/ \E b \in 0..AnyRows, e \in 0..AnyRows : AppendRange(b, e)
    \/ \E n \in 0..AnyRows : TruncateTo(n)
    \/ Reset

SpecVar == VarInit /\ [][VarNext]_vars

\* A chunk of one column and another chunk whose column may have another
\* type: Chunk::append_row and Chunk::append take any row or chunk. The other
\* chunk has one shape of each encoding.
SourceShapes == {<<"LONG_LONG">>, <<"VARCHAR">>, <<"NEW_DECIMAL">>}

MixedInit ==
    /\ tps \in ChunkShapes
    /\ dst = new_chunk(tps)
    /\ dstRows = [c \in DOMAIN tps |-> <<>>]
    /\ \E stp \in SourceShapes : \E script \in Scripts(stp[1]) :
          /\ src = [c \in DOMAIN stp |-> RunScript(Column_new(stp[c]), script)]
          /\ srcRows = [c \in DOMAIN stp |-> ScriptRows(<<>>, script)]
          /\ srcPlain = ScriptIsPlain(script)
    /\ lastOp = Op("new", 0, 0)
    /\ copied = 0
    /\ dstPlain = TRUE
    /\ panicked = FALSE
    /\ limit = 0
    /\ expect_rows = 0
    /\ srcLeft = 0
    /\ srcBounded = TRUE
    /\ returned = 0
    /\ calls = 0
    /\ srcCalls = 0
    /\ lastCall = NoCall
    /\ limitPanicked = FALSE
    /\ cache = <<>>
    /\ regionVersion = <<>>
    /\ ctx = NoContext
    /\ pc = "idle"
    /\ version = 0
    /\ chunks = <<>>
    /\ record_cnt = 0
    /\ resp = NoResponse
    /\ hist = NoHistory
    /\ prev = NoRequest
    /\ disturbed = FALSE
    /\ evalCtx = <<>>
    /\ evalHist = <<>>

\* The operations that copy rows in, and those that take rows away.
MixedNext ==
    \/ \E c \in DOMAIN dst : AppendNull(c)
    \/ \E i \in 0..(AnyRows - 1) : AppendRow(i)
    \/ \E b \in 0..AnyRows, e \in 0..AnyRows : AppendRange(b, e)
    \/ \E n \in 0..AnyRows : TruncateTo(n)
    \/ Reset

SpecMixed == MixedInit /\ [][MixedNext]_vars

\* A chunk of two columns of different encodings and another chunk of two
\* columns, in the same order or the other: every column of the other chunk
\* was filled by calls that left it as many rows as the other columns.
WideShapes == {<<"LONG_LONG", "VARCHAR">>, <<"VARCHAR", "LONG_LONG">>}
WideScripts ==
    { f \in [{"LONG_LONG", "VARCHAR"} -> UNION {Scripts(tp) : tp \in {"LONG_LONG", "VARCHAR"}}] :
        /\ \A tp \in DOMAIN f : f[tp] \in Scripts(tp)
        /\ Len(ScriptRows(<<>>, f["LONG_LONG"])) = Len(ScriptRows(<<>>, f["VARCHAR"])) }

WideInit ==
    /\ tps \in WideShapes
    /\ dst = new_chunk(tps)
    /\ dstRows = [c \in DOMAIN tps |-> <<>>]
    /\ \E stp \in WideShapes : \E script \in WideScripts :
          /\ src = [c \in DOMAIN stp |-> RunScript(Column_new(stp[c]), script[stp[c]])]
          /\ srcRows = [c \in DOMAIN stp |-> ScriptRows(<<>>, script[stp[c]])]
          /\ srcPlain = \A c \in DOMAIN stp : ScriptIsPlain(script[stp[c]])
    /\ lastOp = Op("new", 0, 0)
    /\ copied = 0
    /\ dstPlain = TRUE
    /\ panicked = FALSE
    /\ limit = 0
    /\ expect_rows = 0
    /\ srcLeft = 0
    /\ srcBounded = TRUE
    /\ returned = 0
    /\ calls = 0
    /\ srcCalls = 0
    /\ lastCall = NoCall
    /\ limitPanicked = FALSE
    /\ cache = <<>>
    /\ regionVersion = <<>>
    /\ ctx = NoContext
    /\ pc = "idle"
    /\ version = 0
    /\ chunks = <<>>
    /\ record_cnt = 0
    /\ resp = NoResponse
    /\ hist = NoHistory
    /\ prev = NoRequest
    /\ disturbed = FALSE
    /\ evalCtx = <<>>
    /\ evalHist = <<>>

\* The operations that act on every column of a chunk.
WideNext ==
    \/ \E i \in 0..(AnyRows - 1) : AppendRow(i)
    \/ \E b \in 0..AnyRows, e \in 0..AnyRows : AppendRange(b, e)
    \/ \E n \in 0..AnyRows : TruncateTo(n)
    \/ Reset

SpecWide == WideInit /\ [][WideNext]_vars

\* One request handled by DAGContext::handle_request over a cache that others
\* use as well. No limit executor and no chunk is in use.
DagInit ==
    /\ cache = [r \in Regions |-> [k \in CacheKeys |-> NoEntry]]
    /\ regionVersion = [r \in Regions |-> 1]
    /\ \E l \in BatchRowLimits, enable \in BOOLEAN : ctx \in Contexts(l, enable)
    /\ pc = "start"
    /\ version = 0
    /\ chunks = <<>>
    /\ record_cnt = 0
    /\ resp = NoResponse
    /\ hist = NoHistory
    /\ prev = NoRequest
    /\ disturbed = FALSE
    /\ evalCtx = <<>>
    /\ evalHist = <<>>
    /\ limit = 0
    /\ expect_rows = 0
    /\ srcLeft = 0
    /\ srcBounded = TRUE
    /\ returned = 0
    /\ calls = 0
    /\ srcCalls = 0
    /\ lastCall = NoCall
    /\ limitPanicked = FALSE
    /\ tps = <<>>
    /\ dst = <<>>
    /\ src = <<>>
    /\ dstRows = <<>>
    /\ srcRows = <<>>
    /\ lastOp = Op("new", 0, 0)
    /\ copied = 0
    /\ srcPlain = TRUE
    /\ dstPlain = TRUE
    /\ panicked = FALSE

DagNext ==
    \/ Begin
    \/ Lookup
    \/ \E row \in ExecRows(hist.advanced + 1), outdated \in BOOLEAN : NextRow(row, outdated)
    \/ NextNone
    \/ \E e \in ExecErrors : NextErr(e)
    \/ ChangeVersion(ctx.region_id)
    \/ Evict(ctx.region_id, ctx.cache_key)
    \/ \E data \in OtherData : OtherStore(ctx.region_id, ctx.cache_key, data)

SpecDag == DagInit /\ [][DagNext]_vars

\* Requests handled one after the other under one configuration: executor
\* chains over a nullable column that yield their rows, all with a value, and
\* are exhausted; meanwhile entries are evicted and region 1 is written to.
SeqContexts(batch_row_limit, enable_distsql_cache) ==
    { c \in Contexts(batch_row_limit, enable_distsql_cache) :
        c.columns = <<ColumnInfo(FALSE, FALSE, FALSE)>> /\ c.rows_total = MaxYield - 1 }

SeqInit ==
    /\ cache = [r \in Regions |-> [k \in CacheKeys |-> NoEntry]]
    /\ regionVersion = [r \in Regions |-> 1]
    /\ \E enable \in BOOLEAN : ctx \in SeqContexts(MaxYield - 1, enable)
    /\ pc = "start"
    /\ version = 0
    /\ chunks = <<>>
    /\ record_cnt = 0
    /\ resp = NoResponse
    /\ hist = NoHistory
    /\ prev = NoRequest
    /\ disturbed = FALSE
    /\ evalCtx = <<>>
    /\ evalHist = <<>>
    /\ limit = 0
    /\ expect_rows = 0
    /\ srcLeft = 0
    /\ srcBounded = TRUE
    /\ returned = 0
    /\ calls = 0
    /\ srcCalls = 0
    /\ lastCall = NoCall
    /\ limitPanicked = FALSE
    /\ tps = <<>>
    /\ dst = <<>>
    /\ src = <<>>
    /\ dstRows = <<>>
    /\ srcRows = <<>>
    /\ lastOp = Op("new", 0, 0)
    /\ copied = 0
    /\ srcPlain = TRUE
    /\ dstPlain = TRUE
    /\ panicked = FALSE

SeqNext ==
    \/ Begin
    \/ Lookup
    \/ \E row \in {r \in ExecRows(hist.advanced + 1) : r.present} : NextRow(row, FALSE)
    \/ NextNone
    \/ \E c \in SeqContexts(ctx.batch_row_limit, ctx.enable_distsql_cache) : NewRequest(c)
    \/ ChangeVersion(1)
    \/ Evict(ctx.region_id, ctx.cache_key)

SpecSeq == SeqInit /\ [][SeqNext]_vars

\* An EvalContext over a configuration built from a request's flags, with a
\* small cap on the retained warnings, and the calls on it. No limit executor,
\* no chunk and no request is in use.
EvalInit ==
    /\ \E flags \in EvalFlags, m \in 0..MaxWarningCap :
          evalCtx = EvalContext_new(set_max_warning_cnt(EvalConfig_new(0, flags).cfg, m))
    /\ evalHist = [last |-> [op |-> "new", ok |-> TRUE, err |-> ""], total |-> 0,
                   seen |-> <<>>, merged |-> FALSE]
    /\ limit = 0
    /\ expect_rows = 0
    /\ srcLeft = 0
    /\ srcBounded = TRUE
    /\ returned = 0
    /\ calls = 0
    /\ srcCalls = 0
    /\ lastCall = NoCall
    /\ limitPanicked = FALSE
    /\ tps = <<>>
    /\ dst = <<>>
    /\ src = <<>>
    /\ dstRows = <<>>
    /\ srcRows = <<>>
    /\ lastOp = Op("new", 0, 0)
    /\ copied = 0
    /\ srcPlain = TRUE
    /\ dstPlain = TRUE
    /\ panicked = FALSE
    /\ cache = <<>>
    /\ regionVersion = <<>>
    /\ ctx = NoContext
    /\ pc = "idle"
    /\ version = 0
    /\ chunks = <<>>
    /\ record_cnt = 0
    /\ resp = NoResponse
    /\ hist = NoHistory
    /\ prev = NoRequest
    /\ disturbed = FALSE

EvalNext ==
    \/ \E is_truncated \in BOOLEAN : HandleTruncate(is_truncated)
    \/ HandleOverFlow
    \/ \E err \in {TruncatedError, OverflowError} : AppendWarning(err)
    \/ \E other \in OtherWarnings : Merge(other)

SpecEval == EvalInit /\ [][EvalNext]_vars

\* ======================================================================
\* Properties
\* ======================================================================

\* The null rows among the first n of rows.
NullRowsAmong(rows, n) == Cardinality({i \in 1..n : rows[i].null})

\* Every row was produced by an append of a value of `kind`.
AllOfKind(rows, kind) == \A i \in DOMAIN rows : rows[i].tp = kind

\* get_T for the value kind T.
GetAs(kind, col, idx) ==
    CASE kind = "i64" -> get_i64(col, idx)
      [] kind = "u64" -> get_u64(col, idx)
      [] kind = "f32" -> get_f32(col, idx)
      [] OTHER -> get_f64(col, idx)

\* The summed byte lengths of rows [from, to) of a variable-length column.
RECURSIVE SumLens(_, _, _)
SumLens(col, from, to) ==
    IF from >= to THEN 0
    ELSE Len(get_bytes(col, from)) + SumLens(col, from + 1, to)

\* ---- C1 ----
\* With a source that never returns more rows than it was asked for, the
\* rows returned by all next_batch calls together never exceed the limit, and
\* the count passed to the source by a call is min(n, remaining), remaining
\* being the limit minus the rows returned before that call.
C1_LimitRespected ==
    srcBounded =>
        /\ returned <= limit
        /\ calls > 0 =>
              lastCall.asked = Min(lastCall.n, limit - (returned - lastCall.rows))

\* A call asked for more than the quota, was clamped, and used the quota up.
C1_Witness ==
    /\ srcBounded
    /\ calls > 1
    /\ lastCall.n > lastCall.asked
    /\ lastCall.rows > 0
    /\ returned = limit

\* ---- C2 ----
\* A next_batch call made after the remaining quota has reached 0 returns zero
\* rows with the end-of-stream flag set and does not call the source.
C2_NoDelegationAtZero ==
    (srcBounded /\ limit > 0 /\ calls > 0 /\ lastCall.quota = 0) =>
        /\ lastCall.rows = 0
        /\ lastCall.is_drained = "drained"
        /\ srcCalls = lastCall.srcCallsBefore

\* ---- C3 ----
\* For every row of a column, is_null is true exactly when the row was
\* produced by append_null or by copying a null row, whatever sequence of
\* appends, append_row, append, truncate_to and reset led to the column.
C3_NullSemantics ==
    ~panicked =>
        \A c \in DOMAIN dst : \A i \in 0..(dst[c].length - 1) :
            i < Len(dstRows[c]) => (is_null(dst[c], i) <=> dstRows[c][i + 1].null)

\* ---- C4 ----
\* In a fixed-width column filled only by append_T calls, for one scalar type
\* T of i64, u64, f32, f64, get_T(i) returns the i-th appended value, for
\* every row i.
C4_RoundTrip ==
    (~panicked /\ dstPlain) =>
        \A c \in DOMAIN dst : \A kind \in {"i64", "u64", "f32", "f64"} :
            (tps[c] \in FixedTypes /\ AllOfKind(dstRows[c], kind)) =>
                \A i \in 0..(Len(dstRows[c]) - 1) :
                    GetAs(kind, dst[c], i) = [panic |-> FALSE, v |-> dstRows[c][i + 1].v[1]]

\* ---- C5 ----
\* After Chunk::truncate_to(n) on a chunk with at least n rows in every
\* column, num_rows() is n and the null count of each column is the number of
\* null rows among its first n rows.
C5_TruncateNullCount ==
    (~panicked /\ lastOp.op = "truncate_to") =>
        /\ num_rows(dst) = lastOp.a
        /\ \A c \in DOMAIN dst : dst[c].null_cnt = NullRowsAmong(dstRows[c], lastOp.a)

\* var_offsets has length + 1 entries, the first is 0, they never decrease,
\* and the last is data.len().
VarOffsetsWellFormed(col) ==
    /\ Len(col.var_offsets) = col.length + 1
    /\ col.var_offsets[1] = 0
    /\ \A k \in 1..(Len(col.var_offsets) - 1) : col.var_offsets[k] <= col.var_offsets[k + 1]
    /\ Last(col.var_offsets) = Len(col.data)

\* ---- C6 ----
\* In every state of a variable-length column reached by append_null,
\* append_bytes, append_str, append_row, append (from variable-length
\* sources), truncate_to and reset: var_offsets has length + 1 entries, the first
\* is 0, they never decrease, and the last is data.len().
C6_VarOffsets ==
    \A c \in DOMAIN dst : tps[c] \in VarTypes => VarOffsetsWellFormed(dst[c])

\* A truncate_to has left a column with two rows or more, a null among them,
\* and bytes.
C6_Witness ==
    /\ lastOp.op = "truncate_to"
    /\ tps[1] \in VarTypes
    /\ dst[1].length >= 2
    /\ dst[1].null_cnt >= 1
    /\ Len(dst[1].data) >= 2

\* ---- C7 ----
\* In every state of a fixed-width column made by Column::new and reached by
\* append_null, append_i64, append_u64, append_f32, append_f64, append_row,
\* append, truncate_to and reset, data.len() is length * fixed_len.
C7_FixedDataLen ==
    ~panicked =>
        \A c \in DOMAIN dst :
            tps[c] \in FixedTypes => Len(dst[c].data) = dst[c].length * dst[c].fixed_len

\* What append of rows [b, e) of `from` makes of the column `old`.
RangeCopied(old, new, from, b, e) ==
    /\ new.var_offsets =
          old.var_offsets \o
              [k \in 1..(e - b) |-> Last(old.var_offsets) + SumLens(from, b, b + k)]
    /\ old.length = 0 =>
          new.var_offsets = <<0>> \o [k \in 1..(e - b) |-> SumLens(from, b, b + k)]
    /\ \A k \in 0..(e - b - 1) :
          /\ ~get_bytes_panics(new, old.length + k)
          /\ get_bytes(new, old.length + k) = get_bytes(from, b + k)

\* ---- C8 ----
\* append of rows [b, e) of a variable-length column to a variable-length
\* column adds one offset per row, each the previous tail offset plus the
\* summed byte lengths of the rows copied up to it (so from 0 in an empty
\* column), and leaves the offsets before them alone; get_bytes of each new
\* row is get_bytes of the row it was copied from.
C8_RangeCopy ==
    [][(lastOp'.op = "append" /\ ~panicked' /\ tps[1] \in VarTypes) =>
          RangeCopied(dst[1], dst'[1], src[1], lastOp'.a, lastOp'.b)]_vars

\* Two rows or more, one of them with bytes, were appended to a column that
\* already held rows and bytes.
C8_Witness ==
    /\ lastOp.op = "append"
    /\ tps[1] \in VarTypes
    /\ lastOp.b - lastOp.a >= 2
    /\ dst[1].length > lastOp.b - lastOp.a
    /\ dst[1].var_offsets[dst[1].length - (lastOp.b - lastOp.a) + 1] > 0
    /\ Last(dst[1].var_offsets) > dst[1].var_offsets[dst[1].length - (lastOp.b - lastOp.a) + 1]

\* The rows null, "a", null, "bb".
ScenarioRows ==
    <<NullItem, ValItem("bytes", <<97>>), NullItem, ValItem("bytes", <<98, 98>>)>>

\* ---- C9 ----
\* Appending null, "a", null, "bb" to a fresh variable-length column gives
\* var_offsets [0, 0, 1, 1, 3], null-bitmap bits [0, 1, 0, 1] for rows 0..3,
\* null count 2 and data "abb".
C9_Scenario ==
    (dstPlain /\ tps = <<"VARCHAR">> /\ dstRows[1] = ScenarioRows) =>
        /\ dst[1].var_offsets = <<0, 0, 1, 1, 3>>
        /\ Len(dst[1].null_bitmap) = 1
        /\ [r \in 1..4 |-> BitIsSet(dst[1].null_bitmap[1], r - 1)]
              = <<FALSE, TRUE, FALSE, TRUE>>
        /\ dst[1].null_cnt = 2
        /\ dst[1].data = <<97, 98, 98>>
        /\ dst[1].length = 4

C9_Witness == dstPlain /\ tps = <<"VARCHAR">> /\ dstRows[1] = ScenarioRows

\* ---- C10 ----
\* Copying every row of a chunk that was built by appends only, in order, with
\* append_row(0, row) into a fresh chunk of the same shape gives columns equal
\* to the source's in length, null count, null bitmap, data, slot size,
\* offsets and boxed values.
C10_CopyIdentical ==
    (copied >= 0 /\ srcPlain) =>
        /\ ~panicked
        /\ copied = num_rows(src) => dst = src

\* The encoding a column reports: is_fixed is asked first, then is_varlen
\* (chunk.rs 117-125, 229-243).
Encoding(col) ==
    IF is_fixed(col) THEN "fixed" ELSE IF is_varlen(col) THEN "varlen" ELSE "boxed"

\* ---- C11 ----
\* A cell of a fixed-width column created by append_null reads as 0 through
\* get_i64, in every state of the column reached by appends, truncate_to and
\* reset.
C11_NullReadsZero ==
    (~panicked /\ lastOp.op = "append_null" /\ tps[lastOp.a] \in FixedTypes) =>
        get_i64(dst[lastOp.a], dst[lastOp.a].length - 1) = [panic |-> FALSE, v |-> 0]

\* ---- C12 ----
\* The encoding of a column (fixed-width, variable-length or boxed, as is_fixed
\* and is_varlen report it) is the one chosen at construction after every
\* sequence of operations, reset, append_row and append from a column of any
\* encoding included.
C12_EncodingFixed ==
    \A c \in DOMAIN dst : Encoding(dst[c]) = Encoding(Column_new(tps[c]))

\* ---- C13 ----
\* After reset a column of any encoding has length 0, null count 0, an empty
\* null bitmap, empty data, no boxed values and, when it is variable-length,
\* the offsets [0], as a freshly constructed column has.
C13_ResetFresh ==
    lastOp.op = "reset" =>
        \A c \in DOMAIN dst :
            /\ dst[c].length = 0
            /\ dst[c].null_cnt = 0
            /\ dst[c].null_bitmap = <<>>
            /\ dst[c].data = <<>>
            /\ dst[c].ifaces = <<>>
            /\ Encoding(dst[c]) = "varlen" => dst[c].var_offsets = <<0>>

\* ---- C14 ----
\* Row::get_datum returns the null marker for a null cell; for a cell that is
\* not null it decodes through get_u64 (unsigned flag) or get_i64 for every
\* integer type that Column::new makes fixed-width, through the float accessor
\* for FLOAT and DOUBLE, through get_bytes for the string and blob types, and
\* through get_interface only for the types that Column::new makes boxed.
C14_GetDatumDispatch ==
    ~panicked =>
        \A c \in DOMAIN dst : \A i \in 0..(dst[c].length - 1) : \A unsigned \in BOOLEAN :
            LET r == get_datum(dst, i, c, tps[c], unsigned)
            IN  IF is_null(dst[c], i) THEN r.tag = "Null"
                ELSE IF tps[c] \in IntTypes
                THEN r.via = IF unsigned THEN "get_u64" ELSE "get_i64"
                ELSE IF tps[c] \in {"FLOAT", "DOUBLE"} THEN r.via \in {"get_f32", "get_f64"}
                ELSE IF tps[c] \in VarTypes THEN r.via = "get_bytes"
                ELSE r.via = "get_interface"

\* Two requests with the same key ranges and executor chain for the same region.
SameRequest(a, b) == a.region_id = b.region_id /\ a.cache_key = b.cache_key
\* handle_request is past its lookup: it is pulling rows or has returned.
PastLookup == pc \in {"loop", "done"}

HandlerStep == pc' # pc \/ hist' # hist
\* The request at hand has an aggregation or a top-N stage.
AggrOrTopN == ctx.has_aggr \/ ctx.has_topn

\* ---- C16 ----
\* handle_request stores a response in the cache if and only if the executor
\* chain was exhausted normally, the cache is enabled, the plan has an
\* aggregation or a top-N stage and the serialized response is at most
\* 5 * 1024 * 1024 bytes: the step that returns after such an exhaustion puts
\* the response's bytes under (region id, cache key), and no other step of
\* handle_request changes the cache.
C16_StoreIff ==
    [][HandlerStep =>
         IF /\ pc' = "done"
            /\ hist'.how = "exhausted"
            /\ ctx.enable_distsql_cache
            /\ AggrOrTopN
            /\ resp'.data.len <= 5 * 1024 * 1024
         THEN /\ cache' = cache_put(cache, ctx.region_id, ctx.cache_key, version,
                                    resp'.data)
              /\ hist'.puts = hist.puts + 1
         ELSE /\ cache' = cache
              /\ hist'.puts = hist.puts]_vars
C16_Witness ==
    /\ pc = "done"
    /\ hist.how = "exhausted"
    /\ hist.puts = 1
    /\ resp.data.len = 5 * 1024 * 1024
    /\ cache_get(cache, ctx.region_id, ctx.cache_key).data = resp.data

\* ---- C17 ----
\* When the lookup for (region id, cache key) of a cacheable request hits,
\* handle_request returns at once a response whose data is exactly the cached
\* bytes: it has pulled no row from the executor chain, made no staleness
\* check and no store, and the lookup leaves the cache as it was.
C17_HitShortCircuits ==
    [][(/\ HandlerStep
        /\ pc = "lookup"
        /\ cache_get(cache, ctx.region_id, ctx.cache_key).present)
       => /\ pc' = "done"
          /\ resp'.kind = "ok"
          /\ resp'.data = cache_get(cache, ctx.region_id, ctx.cache_key).data
          /\ resp'.other_error = ""
          /\ hist'.advanced = 0
          /\ hist'.staleChecks = 0
          /\ hist'.puts = 0
          /\ cache' = cache]_vars
C17_Witness ==
    /\ pc = "done"
    /\ can_cache(ctx)
    /\ hist.how = "hit"
    /\ hist.lookups = 1
    /\ resp.data = hist.found
    /\ resp.data.chunks # <<>>
    /\ hist.advanced = 0

\* ---- C18 ----
\* Whenever handle_request stores a response, the version it passes to the
\* store is the value get_region_version returned at the start of that same
\* request, whatever others did to the region's version and to the cache in
\* the meantime: the version is queried once, in a step of its own before the
\* lookup and before any row is pulled, and never again.
C18_VersionAtStart ==
    [][HandlerStep =>
         /\ hist'.puts # hist.puts
               => /\ hist.versionQueries = 1
                  /\ hist'.versionQueries = 1
                  /\ hist'.putVersion = hist.verAtQuery
                  /\ cache_get(cache', ctx.region_id, ctx.cache_key).version
                         = hist.verAtQuery
         /\ hist'.versionQueries # hist.versionQueries
               => /\ pc = "start"
                  /\ hist'.lookups = 0
                  /\ hist'.advanced = 0
                  /\ hist'.verAtQuery = get_region_version(regionVersion, ctx.region_id)
         /\ hist'.lookups # hist.lookups
               => /\ hist.versionQueries = 1
                  /\ hist'.versionQueries = 1]_vars
C18_Witness ==
    /\ pc = "done"
    /\ hist.puts = 1
    /\ hist.putVersion = hist.verAtQuery
    /\ hist.verAtPut # hist.verAtQuery
    /\ disturbed

\* The number of rows whose bytes a chunk holds.
RowsIn(chunk) == Cardinality({chunk[i].n : i \in DOMAIN chunk})
\* Every chunk holds between one and m rows, every chunk but the last m rows.
ChunksFilledTo(chs, m) ==
    /\ \A i \in DOMAIN chs : RowsIn(chs[i]) >= 1 /\ RowsIn(chs[i]) <= m
    /\ \A i \in DOMAIN chs : i < Len(chs) => RowsIn(chs[i]) = m
\* handle_request returned the chunks of an exhausted executor chain.
Exhausted == pc = "done" /\ hist.how = "exhausted"

\* ---- C19 ----
\* As claimed: for every configured max-rows-per-chunk value, 0 and 1
\* included, and every number N of rows the executor chain yields, every
\* chunk of the response holds at least one and at most max-rows-per-chunk
\* rows, every chunk but the last exactly that many, and N = 0 gives no chunk.
C19_ChunkSizesAsClaimed ==
    Exhausted =>
        /\ ChunksFilledTo(resp.data.chunks, ctx.batch_row_limit)
        /\ ctx.rows_total = 0 => resp.data.chunks = <<>>
\* C19, amended: the same for every max-rows-per-chunk value of at least 1;
\* with the value 0 every chunk holds exactly one row.
C19_ChunkSizes ==
    Exhausted =>
        /\ ctx.batch_row_limit >= 1
              => ChunksFilledTo(resp.data.chunks, ctx.batch_row_limit)
        /\ ctx.batch_row_limit = 0 => ChunksFilledTo(resp.data.chunks, 1)
        /\ ctx.rows_total = 0 => resp.data.chunks = <<>>
C19_Witness ==
    /\ Exhausted
    /\ ctx.batch_row_limit = 2
    /\ ctx.rows_total = 3
    /\ Len(resp.data.chunks) = 2
    /\ RowsIn(resp.data.chunks[1]) = 2
    /\ RowsIn(resp.data.chunks[2]) = 1

\* The ways handle_request ends after pulling from the executor chain.
\* The chain was exhausted: a successful response with the chunks.
EndsExhausted ==
    /\ hist.how = "exhausted"
    /\ resp.kind = "ok"
    /\ resp.data = SerializeChunks(chunks)
    /\ resp.other_error = ""
\* The chain raised Error::Other: a successful response with the serialized
\* error and its text, none of the rows collected so far, nothing stored.
EndsBusiness ==
    /\ hist.how = "business"
    /\ resp.kind = "ok"
    /\ resp.data.error = "Other"
    /\ resp.data.chunks = <<>>
    /\ resp.other_error # ""
    /\ hist.puts = 0
\* Another error of the chain, a staleness error or a row-expansion error:
\* the error goes to the caller, without a response, nothing stored.
EndsErr ==
    /\ \/ hist.how = "fatal" /\ resp.error # "Other"
       \/ hist.how = "outdated" /\ resp.error = "Outdated"
       \/ hist.how = "inflate" /\ resp.error = "Other"
    /\ resp.kind = "err"
    /\ resp.data = NoData
    /\ hist.puts = 0

\* ---- C20 ----
\* As claimed: handle_request ends in exactly one of three ways: exhaustion
\* of the executor chain, a business error of the chain, or an error returned
\* to the caller.
C20_ThreeEndingsAsClaimed ==
    pc = "done" => EndsExhausted \/ EndsBusiness \/ EndsErr
\* C20, amended: unless the cache lookup hits, handle_request ends in
\* exactly one of these three ways.
C20_ThreeEndings ==
    (pc = "done" /\ hist.how # "hit") =>
        /\ EndsExhausted \/ EndsBusiness \/ EndsErr
        /\ ~(EndsExhausted /\ EndsBusiness)
        /\ ~(EndsExhausted /\ EndsErr)
        /\ ~(EndsBusiness /\ EndsErr)
C20_Witness ==
    /\ pc = "done"
    /\ EndsBusiness
    /\ chunks # <<>>
    /\ can_cache(ctx)
    /\ hist.lookups = 1

\* handle_request has just taken a row from the executor chain and the row
\* passed the outdated check.
RowTaken ==
    /\ pc = "loop"
    /\ hist'.advanced = hist.advanced + 1
    /\ hist'.row.n = hist'.advanced
    /\ hist'.how # "outdated"
\* The bytes the step appended: those of the chunk it opened, or those that
\* the last chunk holds in addition.
AppendedBytes ==
    IF Len(chunks') > Len(chunks) THEN chunks'[Len(chunks')]
    ELSE SubSeq(chunks'[Len(chunks')], Len(chunks[Len(chunks)]) + 1,
                Len(chunks'[Len(chunks')]))

\* ---- C21 ----
\* When the plan has no aggregation, the output column of a row is encoded
\* from the first applicable of: the value stored for the column id; the
\* primary-key handle when the column is the pk handle; the declared default
\* value; otherwise the row gives an error when the column is declared
\* not-null and an encoded null when it is not. When the plan has an
\* aggregation, the row's bytes are appended as they are.
C21_Expansion ==
    [][RowTaken =>
         LET row == hist'.row
             col == ctx.columns[ctx.output_offsets[1] + 1]
         IN  IF ctx.has_aggr
             THEN AppendedBytes = <<[from |-> "value", n |-> row.n, len |-> row.len]>>
             ELSE IF row.present
             THEN AppendedBytes = <<[from |-> "stored", n |-> row.n, len |-> row.len]>>
             ELSE IF col.pk_handle
             THEN AppendedBytes = <<[from |-> "pk", n |-> row.n, len |-> 2]>>
             ELSE IF col.has_default_val
             THEN AppendedBytes = <<[from |-> "default", n |-> row.n, len |-> 1]>>
             ELSE IF col.not_null
             THEN AppendedBytes = <<>> /\ pc' = "done" /\ resp'.kind = "err"
             ELSE AppendedBytes = <<[from |-> "null", n |-> row.n, len |-> 1]>>]_vars
C21_Witness ==
    /\ pc = "loop"
    /\ ~ctx.has_aggr
    /\ ctx.columns[1].pk_handle
    /\ ctx.columns[1].has_default_val
    /\ ~hist.row.present
    /\ hist.row.n = 2
    /\ chunks # <<>>
    /\ chunks[Len(chunks)][Len(chunks[Len(chunks)])] = [from |-> "pk", n |-> 2, len |-> 2]

\* ---- C22 ----
\* handle_truncate(true) follows the configuration in this precedence: with
\* ignore_truncate it returns Ok and records nothing, also when
\* truncate_as_warning is set as well; else with truncate_as_warning it
\* returns Ok and records one warning; else it returns the error and records
\* nothing. handle_truncate(false) returns Ok and records nothing.
C22_TruncatePrecedence ==
    [][/\ evalHist'.last.op = "handle_truncate(false)"
             => evalHist'.last.ok /\ evalCtx' = evalCtx
       /\ evalHist'.last.op = "handle_truncate(true)"
             => IF evalCtx.cfg.ignore_truncate
                THEN evalHist'.last.ok /\ evalCtx' = evalCtx
                ELSE IF evalCtx.cfg.truncate_as_warning
                THEN /\ evalHist'.last.ok
                     /\ evalCtx'.cfg = evalCtx.cfg
                     /\ evalCtx'.warnings.warning_cnt = evalCtx.warnings.warning_cnt + 1
                     /\ evalCtx'.warnings.warnings
                           \in {evalCtx.warnings.warnings,
                                Append(evalCtx.warnings.warnings,
                                       [code |-> 1265, msg |-> "[1265] Data Truncated"])}
                ELSE /\ ~evalHist'.last.ok
                     /\ evalHist'.last.err = "Truncated"
                     /\ evalCtx' = evalCtx]_vars
C22_Witness ==
    /\ evalHist.last.op = "handle_truncate(true)"
    /\ evalHist.last.ok
    /\ evalCtx.cfg.ignore_truncate
    /\ evalCtx.cfg.truncate_as_warning
    /\ evalCtx.cfg.max_warning_cnt > 0
    /\ evalCtx.warnings.warning_cnt = 0
    /\ evalCtx.warnings.warnings = <<>>

\* ---- C23 ----
\* After any sequence of append_warning and merge calls (made directly or by
\* the handlers) on an EvalWarnings with cap M, the retained list has at most
\* M entries and warning_cnt is the total number of warnings met: the own
\* appends plus the warning_cnt of every merged accumulator. With appends
\* only, the retained list has exactly min(warning_cnt, M) entries, the first
\* ones appended.
C23_WarningsCapped ==
    /\ Len(evalCtx.warnings.warnings) <= evalCtx.warnings.max_warning_cnt
    /\ evalCtx.warnings.warning_cnt = evalHist.total
    /\ ~evalHist.merged
          => /\ Len(evalCtx.warnings.warnings)
                   = Min(evalCtx.warnings.warning_cnt, evalCtx.warnings.max_warning_cnt)
             /\ evalCtx.warnings.warnings
                   = SubSeq(evalHist.seen, 1, Len(evalCtx.warnings.warnings))
C23_Witness ==
    /\ evalHist.merged
    /\ Len(evalHist.seen) >= 1
    /\ evalCtx.warnings.max_warning_cnt = 2
    /\ Len(evalCtx.warnings.warnings) = 2
    /\ evalCtx.warnings.warnings[1] # evalCtx.warnings.warnings[2]
    /\ evalCtx.warnings.warning_cnt = 4

\* The EvalContext at hand under the configuration of other request flags.
WithFlags(flags) ==
    [evalCtx EXCEPT !.cfg = set_max_warning_cnt(EvalConfig_new(0, flags).cfg,
                                                evalCtx.cfg.max_warning_cnt)]

\* ---- C24 ----
\* An overflow is handled three ways like a truncation and independently of
\* the truncation flags: ignored, recorded as a warning, or returned as an
\* error; the result does not depend on the truncation flags, an overflow
\* that is not ignored is recorded as one warning when overflow_as_warning is
\* set and returned as the error otherwise, and under some configuration
\* handle_over_flow returns Ok without recording a warning.
C24_OverflowThreeWays ==
    /\ \A flags \in EvalFlags :
          LET c == WithFlags(flags)
              res == handle_over_flow(c, OverflowError)
          IN  /\ \A other \in EvalFlags :
                    WithFlags(other).cfg.overflow_as_warning = c.cfg.overflow_as_warning
                       => /\ handle_over_flow(WithFlags(other), OverflowError).ok = res.ok
                          /\ handle_over_flow(WithFlags(other), OverflowError).ctx.warnings
                                = res.ctx.warnings
              /\ \/ res.ok /\ res.ctx.warnings = c.warnings
                 \/ /\ c.cfg.overflow_as_warning
                    /\ res.ok
                    /\ res.ctx.warnings.warning_cnt = c.warnings.warning_cnt + 1
                 \/ /\ ~c.cfg.overflow_as_warning
                    /\ ~res.ok
                    /\ res.ctx.warnings = c.warnings
    /\ \E flags \in EvalFlags :
          LET c == WithFlags(flags)
              res == handle_over_flow(c, OverflowError)
          IN  res.ok /\ res.ctx.warnings = c.warnings

\* ---- C25 ----
\* After every next_batch call on the limit executor the remaining quota is
\* its previous value minus the number of rows of the batch the source
\* returned, and the quota never becomes negative or wraps around, whatever
\* number of rows the source returns.
C25_QuotaExact ==
    /\ ~limitPanicked
    /\ expect_rows >= 0
    /\ calls > 0 => expect_rows = lastCall.quota - lastCall.rows

\* The bytes a null bitmap of n rows takes, and a bitmap with no bit set for a
\* row index of n or more.
CeilDiv8(n) == (n + 7) \div 8
NoBitFrom(bitmap, n) ==
    \A k \in DOMAIN bitmap : \A pos \in 0..7 :
        (8 * (k - 1) + pos >= n) => ~BitIsSet(bitmap[k], pos)

\* ---- C26 ----
\* Column::truncate_to(n) leaves the column identical (length, null count,
\* bitmap bytes, data, offsets, boxed values) to a fresh column to which only
\* its first n rows were appended; the bitmap has exactly ceil(n / 8) bytes
\* and no bit set for a row index of n or more.
C26_TruncateCanonical ==
    (~panicked /\ lastOp.op = "truncate_to") =>
        \A c \in DOMAIN dst :
            /\ dst[c] = RunScript(Column_new(tps[c]), dstRows[c])
            /\ Len(dst[c].null_bitmap) = CeilDiv8(lastOp.a)
            /\ NoBitFrom(dst[c].null_bitmap, lastOp.a)

\* ---- C27 ----
\* In every reachable state of a column, null_cnt is the number of row
\* indices below length for which is_null is true, and the null bitmap has at
\* least ceil(length / 8) bytes.
C27_NullCountMatchesBitmap ==
    ~panicked =>
        \A c \in DOMAIN dst :
            /\ dst[c].null_cnt =
                  Cardinality({i \in 0..(dst[c].length - 1) : is_null(dst[c], i)})
            /\ Len(dst[c].null_bitmap) >= CeilDiv8(dst[c].length)

\* ---- C28 ----
\* For a source and a destination of the same encoding and a row i of the
\* source, Column::append_row(src, i) leaves the destination exactly as
\* Column::append(src, i, i + 1) leaves it.
C28_RowIsRangeOfOne ==
    [][(lastOp'.op = "append_row" /\ ~panicked') =>
          /\ ~Chunk_append_panics(dst, src, lastOp'.a, lastOp'.a + 1)
          /\ dst' = Chunk_append(dst, src, lastOp'.a, lastOp'.a + 1)]_vars

\* A row with bytes, not the first of its column, was copied by append_row
\* behind a row with bytes of another length.
C28_Witness ==
    /\ lastOp.op = "append_row"
    /\ ~panicked
    /\ tps[1] \in VarTypes
    /\ lastOp.a >= 1
    /\ dst[1].length >= 2
    /\ ~is_null(dst[1], dst[1].length - 1)
    /\ Last(dst[1].var_offsets) # At0(src[1].var_offsets, lastOp.a + 1)

\* All columns of a chunk have as many rows as num_rows reports.
SameLength(chk) == \A c \in DOMAIN chk : chk[c].length = num_rows(chk)

\* ---- C29 ----
\* If all columns of a chunk have the same length, they still have after
\* Chunk::append with a chunk of as many columns, Chunk::append_row(0, row)
\* with a row of as many columns, Chunk::truncate_to and Chunk::reset, and
\* num_rows is that length; Chunk::append adds end - begin rows to every
\* column.
C29_SameLengthKept ==
    [][(/\ SameLength(dst)
        /\ ~panicked'
        /\ lastOp'.op \in {"append", "append_row", "truncate_to", "reset"}) =>
          /\ SameLength(dst')
          /\ lastOp'.op = "append" =>
                \A c \in DOMAIN dst :
                    dst'[c].length = dst[c].length + (lastOp'.b - lastOp'.a)]_vars

\* Two rows or more were appended to a chunk of two columns of different
\* encodings that already held a row copied by append_row.
C29_Witness ==
    /\ lastOp.op = "append"
    /\ ~panicked
    /\ Len(dst) = 2
    /\ lastOp.b - lastOp.a >= 2
    /\ is_fixed(dst[1]) # is_fixed(dst[2])
    /\ SameLength(dst)
    /\ num_rows(dst) > lastOp.b - lastOp.a

\* The row data of the chunks, one chunk after the other.
RECURSIVE RowData(_)
RowData(chs) == IF chs = <<>> THEN <<>> ELSE Head(chs) \o RowData(Tail(chs))

\* What handle_request appends for a row that gives no error.
RowEncoding(row) ==
    IF ctx.has_aggr THEN <<[from |-> "value", n |-> row.n, len |-> row.len]>>
    ELSE inflate_cols(row, ctx.columns, ctx.output_offsets).values

\* ---- C30 ----
\* In a successful response the row data of the chunks, in chunk order, is
\* the concatenation of the encodings of the rows in the order the executor
\* chain yielded them: each yielded row once, none dropped, duplicated or
\* reordered.
C30_RowsInOrder ==
    [][/\ (RowTaken /\ pc' = "loop") =>
              RowData(chunks') = RowData(chunks) \o RowEncoding(hist'.row)
       /\ (pc = "loop" /\ hist'.how = "exhausted") =>
              /\ resp'.kind = "ok"
              /\ RowData(resp'.data.chunks) = RowData(chunks)
              /\ [k \in 1..Len(RowData(chunks)) |-> RowData(chunks)[k].n]
                    = [k \in 1..ctx.rows_total |-> k]]_vars

\* A response of three rows in two chunks or more, one of them with two rows.
C30_Witness ==
    /\ pc = "done"
    /\ hist.how = "exhausted"
    /\ resp.kind = "ok"
    /\ Len(resp.data.chunks) >= 2
    /\ Len(RowData(resp.data.chunks)) = 3
    /\ \E c \in DOMAIN resp.data.chunks : Len(resp.data.chunks[c]) = 2

\* The executor chain has just yielded a row to handle_request.
RowYielded ==
    /\ pc = "loop"
    /\ hist'.advanced = hist.advanced + 1
    /\ hist'.row.n = hist'.advanced

\* ---- C31 ----
\* For every row the executor chain yields, handle_request makes the outdated
\* check once, before the row's bytes are appended to a chunk; when the check
\* fails, handle_request returns that error at once: the row is not appended,
\* no response is built and nothing is stored in the cache.
C31_OutdatedCheckedFirst ==
    [][/\ RowYielded =>
              /\ hist'.staleChecks = hist.staleChecks + 1
              /\ hist'.staleChecks = hist'.row.n
              /\ hist'.how = "outdated" =>
                    /\ pc' = "done"
                    /\ resp' = [kind |-> "err", data |-> NoData, other_error |-> "",
                                error |-> "Outdated"]
                    /\ chunks' = chunks
                    /\ record_cnt' = record_cnt
                    /\ cache' = cache
                    /\ hist'.puts = hist.puts
              /\ (hist'.how # "outdated" /\ pc' = "loop") => AppendedBytes # <<>>
       /\ (HandlerStep /\ ~RowYielded) => hist'.staleChecks = hist.staleChecks]_vars

\* The second row of a cacheable request failed the check after the first
\* row had been appended.
C31_Witness ==
    /\ pc = "done"
    /\ hist.how = "outdated"
    /\ resp.kind = "err"
    /\ can_cache(ctx)
    /\ hist.row.n = 2
    /\ hist.staleChecks = 2
    /\ Len(RowData(chunks)) = 1
    /\ hist.puts = 0

\* The request at hand is not cacheable: the cache is disabled, or the plan
\* has neither an aggregation nor a top-N stage.
NotCacheable == ~ctx.enable_distsql_cache \/ ~AggrOrTopN

\* ---- C32 ----
\* A request that is not cacheable never touches the shared cache:
\* handle_request makes no region-version query, no lookup and no store, and
\* leaves the cache as it is. Every store that happens carries a version that
\* the same request obtained from the cache, never the placeholder 0 the local
\* starts with.
C32_NonCacheableLeavesCache ==
    [][HandlerStep =>
         /\ NotCacheable =>
               /\ cache' = cache
               /\ regionVersion' = regionVersion
               /\ hist'.versionQueries = 0
               /\ hist'.lookups = 0
               /\ hist'.puts = 0
               /\ pc' # "lookup"
         /\ hist'.puts # hist.puts =>
               /\ ~NotCacheable
               /\ hist.versionQueries = 1
               /\ version = hist.verAtQuery
               /\ cache_get(cache', ctx.region_id, ctx.cache_key).version = version
               /\ cache_get(cache', ctx.region_id, ctx.cache_key).version # 0]_vars

\* A request with the cache enabled and no aggregation or top-N stage ran its
\* executor chain to the end and returned rows, while the cache held an entry
\* under its region and key that somebody else had stored.
C32_Witness ==
    /\ pc = "done"
    /\ ctx.enable_distsql_cache
    /\ ~AggrOrTopN
    /\ hist.how = "exhausted"
    /\ resp.data.chunks # <<>>
    /\ hist.versionQueries = 0
    /\ hist.lookups = 0
    /\ cache_get(cache, ctx.region_id, ctx.cache_key).present
====
